---- MODULE Spec2Model ----
(***************************************************************************)
(* Model of the Hindi book summariser (src/src/hindi_audiobook_summary.py).*)
(*                                                                         *)
(* A Python str is a sequence of Unicode code points (naturals), so that   *)
(* the regular expressions, str.strip and str.lower of the source are      *)
(* computed character by character.  A float ratio or score is an exact    *)
(* fraction <<numerator, denominator>>.                                    *)
(***************************************************************************)
EXTENDS Integers, Sequences, FiniteSets, TLC

VARIABLES
    text,            \* the input text of the call under study
    ratio,           \* summary ratio, <<numerator, denominator>>
    min_sentences,   \* the min_sentences argument of summarize_text
    sentences,       \* result of split_sentences(text)
    scored,          \* result of score_sentences(sentences)
    kept,            \* ordered_summary of summarize_text, before the join
    summary,         \* result of summarize_text(text, ratio, min_sentences)
    resummary,       \* result of summarize_text(summary, ratio, min_sentences)
    sections,        \* list of Section records (split_sections' result)
    output_lines,    \* output_lines of summarize_sections(sections, ratio)
    output,          \* result of summarize_sections(sections, ratio)
    other_sections,  \* a second section list, summarised in a second call
    other_lines,     \* output_lines of summarize_sections(other_sections, ratio)
    pc,              \* which call has completed
    args,            \* main: the parsed command line
    disk,              \* main: what the file system holds for the paths of args
    main_pc,         \* main: the statement main is about to execute
    error,           \* main: the exception that ended the run, or "none"
    source_text,     \* main: source_text
    events,       \* main: the source reads and artifact writes so far, in order
    images,          \* main: images
    audio_data,      \* convert_to_wav: audio_data, a sequence of bytes
    mime_type,       \* convert_to_wav: mime_type
    parameters,      \* convert_to_wav: parameters
    wav,             \* convert_to_wav: its outcome
    max_chars,       \* split_text_for_tts: max_chars
    tts_sentences,   \* split_text_for_tts: sentences
    tts_i,           \* split_text_for_tts: index of the next sentence of the loop
    current,         \* split_text_for_tts: current
    current_len,     \* split_text_for_tts: current_len
    tts_chunks           \* split_text_for_tts: chunks, then the returned list

summaryVars == <<text, ratio, min_sentences, sentences, scored, kept, summary,
                 resummary, sections, output_lines, output, other_sections,
                 other_lines>>
mainVars == <<args, disk, main_pc, error, source_text, events, images>>
wavVars == <<audio_data, mime_type, parameters, wav>>
ttsVars == <<max_chars, tts_sentences, tts_i, current, current_len, tts_chunks>>

vars == <<summaryVars, pc, mainVars, wavVars, ttsVars>>

----------------------------------------------------------------------------
(* Characters and generic string helpers *)

SetMin(S) == CHOOSE x \in S : \A y \in S : x <= y
SetMax(S) == CHOOSE x \in S : \A y \in S : x >= y
Max2(a, b) == IF a >= b THEN a ELSE b
Min2(a, b) == IF a <= b THEN a ELSE b

\* Code points for which str.isspace() holds; the same set is matched by \s.
Whitespace ==
    {9, 10, 11, 12, 13, 28, 29, 30, 31, 32, 133, 160, 5760}
        \cup (8192..8202) \cup {8232, 8233, 8239, 8287, 12288}

IsSpace(c) == c \in Whitespace

\* The class [\u0964.!?] of the sentence pattern: danda U+0964, '.', '!', '?'.
Terminators == {2404, 46, 33, 63}

\* str.strip(): drop leading and trailing whitespace.
Strip(s) ==
    LET solid == {i \in 1..Len(s) : ~IsSpace(s[i])}
    IN  IF solid = {} THEN <<>> ELSE SubSeq(s, SetMin(solid), SetMax(solid))

\* Last index of the maximal run of characters satisfying P that starts at i.
RunEnd(s, i, P(_)) ==
    LET stops == {j \in i..Len(s) : ~P(s[j])}
    IN  IF stops = {} THEN Len(s) ELSE SetMin(stops) - 1

RECURSIVE Concat(_)
Concat(ss) == IF ss = <<>> THEN <<>> ELSE Head(ss) \o Concat(Tail(ss))

\* sep.join(parts)
RECURSIVE Join(_, _)
Join(parts, sep) ==
    IF parts = <<>> THEN <<>>
    ELSE IF Len(parts) = 1 THEN parts[1]
    ELSE parts[1] \o sep \o Join(Tail(parts), sep)

\* [F(x) for x in s]
MapSeq(s, F(_)) ==
    LET RECURSIVE Map(_)
        Map(t) == IF t = <<>> THEN <<>> ELSE << F(Head(t)) >> \o Map(Tail(t))
    IN  Map(s)

----------------------------------------------------------------------------
(* split_sentences *)

\* re.split(r"(?<=[\u0964.!?])\s+", s): cut out every whitespace run whose first
\* character is immediately preceded by a terminator.  `start` is the first
\* index of the current chunk, `i` the index being examined.
RECURSIVE ReSplitFrom(_, _, _)
ReSplitFrom(s, start, i) ==
    IF i > Len(s) THEN << SubSeq(s, start, Len(s)) >>
    ELSE IF IsSpace(s[i]) /\ i > 1 /\ s[i - 1] \in Terminators
    THEN LET j == RunEnd(s, i, IsSpace)
         IN  << SubSeq(s, start, i - 1) >> \o ReSplitFrom(s, j + 1, j + 1)
    ELSE ReSplitFrom(s, start, i + 1)

\* A split that forgets the lookbehind and cuts at every whitespace run.
split_sentences_any_space(t) ==
    LET RECURSIVE Cut(_, _, _)
        Cut(s, start, i) ==
            IF i > Len(s) THEN << SubSeq(s, start, Len(s)) >>
            ELSE IF IsSpace(s[i])
            THEN LET j == RunEnd(s, i, IsSpace)
                 IN  << SubSeq(s, start, i - 1) >> \o Cut(s, j + 1, j + 1)
            ELSE Cut(s, start, i + 1)
        chunks == Cut(Strip(t), 1, 1)
    IN  SelectSeq(MapSeq(chunks, Strip), LAMBDA c : c # <<>>)

split_sentences(t) ==
    LET chunks == ReSplitFrom(Strip(t), 1, 1)
    IN  SelectSeq(MapSeq(chunks, Strip), LAMBDA c : c # <<>>)

----------------------------------------------------------------------------
(* tokenize *)

\* The 22 Hindi stop-words, in source order, as code points.
STOPWORDS ==
    {
      <<2324, 2352>>, <<2361, 2376>>, <<2361, 2376, 2306>>, <<2341, 2366>>,
      <<2341, 2368>>, <<2341, 2375>>, <<2325, 2379>>, <<2325, 2375>>,
      <<2325, 2366>>, <<2325, 2368>>, <<2350, 2375, 2306>>, <<2360, 2375>>,
      <<2346, 2352>>, <<2351, 2361>>, <<2357, 2361>>, <<2340, 2379>>,
      <<2349, 2368>>, <<2319, 2325>>, <<2325, 2367>>, <<2351, 2366>>,
      <<2354, 2367, 2319>>, <<2340, 2325>>
    }

\* str.lower() of one cased letter that becomes one other letter, as runs
\* <<first, last, step, shift>>: the letters first, first + step, ..., last
\* become the letter shift places further on.  The runs below U+0900.
LowerRunsLow ==
    {
      <<65, 90, 1, 32>>, <<192, 214, 1, 32>>, <<216, 222, 1, 32>>,
      <<256, 302, 2, 1>>, <<306, 310, 2, 1>>, <<313, 327, 2, 1>>,
      <<330, 374, 2, 1>>, <<376, 376, 1, -121>>, <<377, 381, 2, 1>>,
      <<385, 385, 1, 210>>, <<386, 388, 2, 1>>, <<390, 390, 1, 206>>,
      <<391, 391, 1, 1>>, <<393, 394, 1, 205>>, <<395, 395, 1, 1>>,
      <<398, 398, 1, 79>>, <<399, 399, 1, 202>>, <<400, 400, 1, 203>>,
      <<401, 401, 1, 1>>, <<403, 403, 1, 205>>, <<404, 404, 1, 207>>,
      <<406, 406, 1, 211>>, <<407, 407, 1, 209>>, <<408, 408, 1, 1>>,
      <<412, 412, 1, 211>>, <<413, 413, 1, 213>>, <<415, 415, 1, 214>>,
      <<416, 420, 2, 1>>, <<422, 422, 1, 218>>, <<423, 423, 1, 1>>,
      <<425, 425, 1, 218>>, <<428, 428, 1, 1>>, <<430, 430, 1, 218>>,
      <<431, 431, 1, 1>>, <<433, 434, 1, 217>>, <<435, 437, 2, 1>>,
      <<439, 439, 1, 219>>, <<440, 440, 1, 1>>, <<444, 444, 1, 1>>,
      <<452, 452, 1, 2>>, <<453, 453, 1, 1>>, <<455, 455, 1, 2>>,
      <<456, 456, 1, 1>>, <<458, 458, 1, 2>>, <<459, 475, 2, 1>>,
      <<478, 494, 2, 1>>, <<497, 497, 1, 2>>, <<498, 500, 2, 1>>,
      <<502, 502, 1, -97>>, <<503, 503, 1, -56>>, <<504, 542, 2, 1>>,
      <<544, 544, 1, -130>>, <<546, 562, 2, 1>>, <<570, 570, 1, 10795>>,
      <<571, 571, 1, 1>>, <<573, 573, 1, -163>>, <<574, 574, 1, 10792>>,
      <<577, 577, 1, 1>>, <<579, 579, 1, -195>>, <<580, 580, 1, 69>>,
      <<581, 581, 1, 71>>, <<582, 590, 2, 1>>, <<880, 882, 2, 1>>,
      <<886, 886, 1, 1>>, <<895, 895, 1, 116>>, <<902, 902, 1, 38>>,
      <<904, 906, 1, 37>>, <<908, 908, 1, 64>>, <<910, 911, 1, 63>>,
      <<913, 929, 1, 32>>, <<931, 939, 1, 32>>, <<975, 975, 1, 8>>,
      <<984, 1006, 2, 1>>, <<1012, 1012, 1, -60>>, <<1015, 1015, 1, 1>>,
      <<1017, 1017, 1, -7>>, <<1018, 1018, 1, 1>>, <<1021, 1023, 1, -130>>,
      <<1024, 1039, 1, 80>>, <<1040, 1071, 1, 32>>, <<1120, 1152, 2, 1>>,
      <<1162, 1214, 2, 1>>, <<1216, 1216, 1, 15>>, <<1217, 1229, 2, 1>>,
      <<1232, 1326, 2, 1>>, <<1329, 1366, 1, 48>>
    }

\* The runs above U+097F.
LowerRunsHigh ==
    {
      <<4256, 4293, 1, 7264>>, <<4295, 4295, 1, 7264>>,
      <<4301, 4301, 1, 7264>>, <<5024, 5103, 1, 38864>>,
      <<5104, 5109, 1, 8>>, <<7312, 7354, 1, -3008>>,
      <<7357, 7359, 1, -3008>>, <<7680, 7828, 2, 1>>,
      <<7838, 7838, 1, -7615>>, <<7840, 7934, 2, 1>>,
      <<7944, 7951, 1, -8>>, <<7960, 7965, 1, -8>>, <<7976, 7983, 1, -8>>,
      <<7992, 7999, 1, -8>>, <<8008, 8013, 1, -8>>, <<8025, 8031, 2, -8>>,
      <<8040, 8047, 1, -8>>, <<8072, 8079, 1, -8>>, <<8088, 8095, 1, -8>>,
      <<8104, 8111, 1, -8>>, <<8120, 8121, 1, -8>>, <<8122, 8123, 1, -74>>,
      <<8124, 8124, 1, -9>>, <<8136, 8139, 1, -86>>, <<8140, 8140, 1, -9>>,
      <<8152, 8153, 1, -8>>, <<8154, 8155, 1, -100>>,
      <<8168, 8169, 1, -8>>, <<8170, 8171, 1, -112>>,
      <<8172, 8172, 1, -7>>, <<8184, 8185, 1, -128>>,
      <<8186, 8187, 1, -126>>, <<8188, 8188, 1, -9>>,
      <<8486, 8486, 1, -7517>>, <<8490, 8490, 1, -8383>>,
      <<8491, 8491, 1, -8262>>, <<8498, 8498, 1, 28>>,
      <<8544, 8559, 1, 16>>, <<8579, 8579, 1, 1>>, <<9398, 9423, 1, 26>>,
      <<11264, 11311, 1, 48>>, <<11360, 11360, 1, 1>>,
      <<11362, 11362, 1, -10743>>, <<11363, 11363, 1, -3814>>,
      <<11364, 11364, 1, -10727>>, <<11367, 11371, 2, 1>>,
      <<11373, 11373, 1, -10780>>, <<11374, 11374, 1, -10749>>,
      <<11375, 11375, 1, -10783>>, <<11376, 11376, 1, -10782>>,
      <<11378, 11378, 1, 1>>, <<11381, 11381, 1, 1>>,
      <<11390, 11391, 1, -10815>>, <<11392, 11490, 2, 1>>,
      <<11499, 11501, 2, 1>>, <<11506, 11506, 1, 1>>,
      <<42560, 42604, 2, 1>>, <<42624, 42650, 2, 1>>,
      <<42786, 42798, 2, 1>>, <<42802, 42862, 2, 1>>,
      <<42873, 42875, 2, 1>>, <<42877, 42877, 1, -35332>>,
      <<42878, 42886, 2, 1>>, <<42891, 42891, 1, 1>>,
      <<42893, 42893, 1, -42280>>, <<42896, 42898, 2, 1>>,
      <<42902, 42920, 2, 1>>, <<42922, 42922, 1, -42308>>,
      <<42923, 42923, 1, -42319>>, <<42924, 42924, 1, -42315>>,
      <<42925, 42925, 1, -42305>>, <<42926, 42926, 1, -42308>>,
      <<42928, 42928, 1, -42258>>, <<42929, 42929, 1, -42282>>,
      <<42930, 42930, 1, -42261>>, <<42931, 42931, 1, 928>>,
      <<42932, 42946, 2, 1>>, <<42948, 42948, 1, -48>>,
      <<42949, 42949, 1, -42307>>, <<42950, 42950, 1, -35384>>,
      <<42951, 42953, 2, 1>>, <<42960, 42960, 1, 1>>,
      <<42966, 42968, 2, 1>>, <<42997, 42997, 1, 1>>,
      <<65313, 65338, 1, 32>>, <<66560, 66599, 1, 40>>,
      <<66736, 66771, 1, 40>>, <<66928, 66938, 1, 39>>,
      <<66940, 66954, 1, 39>>, <<66956, 66962, 1, 39>>,
      <<66964, 66965, 1, 39>>, <<68736, 68786, 1, 64>>,
      <<71840, 71871, 1, 32>>, <<93760, 93791, 1, 32>>,
      <<125184, 125217, 1, 34>>
    }

\* The shift of the run that holds c, 0 when no run holds it.
LowerShift(c, runs) ==
    IF \E r \in runs : r[1] <= c /\ c <= r[2] /\ (c - r[1]) % r[3] = 0
    THEN (CHOOSE r \in runs : r[1] <= c /\ c <= r[2] /\ (c - r[1]) % r[3] = 0)[4]
    ELSE 0

\* chr(c).lower(), a string of one character except for U+0130, which
\* becomes 'i' followed by U+0307.
LowerChar(c) ==
    IF c < 192 THEN (IF 65 <= c /\ c <= 90 THEN << c + 32 >> ELSE << c >>)
    ELSE IF c = 304 THEN <<105, 775>>
    ELSE IF c < 2304 THEN << c + LowerShift(c, LowerRunsLow) >>
    ELSE IF c <= 2431 THEN << c >>
    ELSE << c + LowerShift(c, LowerRunsHigh) >>

\* Ranges <<first, last>> of the characters str.lower() skips when it looks
\* for the neighbours of a capital sigma (case-ignorable characters).
CaseIgnorable ==
    {
      <<39, 39>>, <<46, 46>>, <<58, 58>>, <<94, 94>>, <<96, 96>>,
      <<168, 168>>, <<173, 173>>, <<175, 175>>, <<180, 180>>, <<183, 184>>,
      <<688, 879>>, <<884, 885>>, <<890, 890>>, <<900, 901>>, <<903, 903>>,
      <<1155, 1161>>, <<1369, 1369>>, <<1375, 1375>>, <<1425, 1469>>,
      <<1471, 1471>>, <<1473, 1474>>, <<1476, 1477>>, <<1479, 1479>>,
      <<1524, 1524>>, <<1536, 1541>>, <<1552, 1562>>, <<1564, 1564>>,
      <<1600, 1600>>, <<1611, 1631>>, <<1648, 1648>>, <<1750, 1757>>,
      <<1759, 1768>>, <<1770, 1773>>, <<1807, 1807>>, <<1809, 1809>>,
      <<1840, 1866>>, <<1958, 1968>>, <<2027, 2037>>, <<2042, 2042>>,
      <<2045, 2045>>, <<2070, 2093>>, <<2137, 2139>>, <<2184, 2184>>,
      <<2192, 2193>>, <<2200, 2207>>, <<2249, 2306>>, <<2362, 2362>>,
      <<2364, 2364>>, <<2369, 2376>>, <<2381, 2381>>, <<2385, 2391>>,
      <<2402, 2403>>, <<2417, 2417>>, <<2433, 2433>>, <<2492, 2492>>,
      <<2497, 2500>>, <<2509, 2509>>, <<2530, 2531>>, <<2558, 2558>>,
      <<2561, 2562>>, <<2620, 2620>>, <<2625, 2626>>, <<2631, 2632>>,
      <<2635, 2637>>, <<2641, 2641>>, <<2672, 2673>>, <<2677, 2677>>,
      <<2689, 2690>>, <<2748, 2748>>, <<2753, 2757>>, <<2759, 2760>>,
      <<2765, 2765>>, <<2786, 2787>>, <<2810, 2815>>, <<2817, 2817>>,
      <<2876, 2876>>, <<2879, 2879>>, <<2881, 2884>>, <<2893, 2893>>,
      <<2901, 2902>>, <<2914, 2915>>, <<2946, 2946>>, <<3008, 3008>>,
      <<3021, 3021>>, <<3072, 3072>>, <<3076, 3076>>, <<3132, 3132>>,
      <<3134, 3136>>, <<3142, 3144>>, <<3146, 3149>>, <<3157, 3158>>,
      <<3170, 3171>>, <<3201, 3201>>, <<3260, 3260>>, <<3263, 3263>>,
      <<3270, 3270>>, <<3276, 3277>>, <<3298, 3299>>, <<3328, 3329>>,
      <<3387, 3388>>, <<3393, 3396>>, <<3405, 3405>>, <<3426, 3427>>,
      <<3457, 3457>>, <<3530, 3530>>, <<3538, 3540>>, <<3542, 3542>>,
      <<3633, 3633>>, <<3636, 3642>>, <<3654, 3662>>, <<3761, 3761>>,
      <<3764, 3772>>, <<3782, 3782>>, <<3784, 3789>>, <<3864, 3865>>,
      <<3893, 3893>>, <<3895, 3895>>, <<3897, 3897>>, <<3953, 3966>>,
      <<3968, 3972>>, <<3974, 3975>>, <<3981, 3991>>, <<3993, 4028>>,
      <<4038, 4038>>, <<4141, 4144>>, <<4146, 4151>>, <<4153, 4154>>,
      <<4157, 4158>>, <<4184, 4185>>, <<4190, 4192>>, <<4209, 4212>>,
      <<4226, 4226>>, <<4229, 4230>>, <<4237, 4237>>, <<4253, 4253>>,
      <<4348, 4348>>, <<4957, 4959>>, <<5906, 5908>>, <<5938, 5939>>,
      <<5970, 5971>>, <<6002, 6003>>, <<6068, 6069>>, <<6071, 6077>>,
      <<6086, 6086>>, <<6089, 6099>>, <<6103, 6103>>, <<6109, 6109>>,
      <<6155, 6159>>, <<6211, 6211>>, <<6277, 6278>>, <<6313, 6313>>,
      <<6432, 6434>>, <<6439, 6440>>, <<6450, 6450>>, <<6457, 6459>>,
      <<6679, 6680>>, <<6683, 6683>>, <<6742, 6742>>, <<6744, 6750>>,
      <<6752, 6752>>, <<6754, 6754>>, <<6757, 6764>>, <<6771, 6780>>,
      <<6783, 6783>>, <<6823, 6823>>, <<6832, 6862>>, <<6912, 6915>>,
      <<6964, 6964>>, <<6966, 6970>>, <<6972, 6972>>, <<6978, 6978>>,
      <<7019, 7027>>, <<7040, 7041>>, <<7074, 7077>>, <<7080, 7081>>,
      <<7083, 7085>>, <<7142, 7142>>, <<7144, 7145>>, <<7149, 7149>>,
      <<7151, 7153>>, <<7212, 7219>>, <<7222, 7223>>, <<7288, 7293>>,
      <<7376, 7378>>, <<7380, 7392>>, <<7394, 7400>>, <<7405, 7405>>,
      <<7412, 7412>>, <<7416, 7417>>, <<7468, 7530>>, <<7544, 7544>>,
      <<7579, 7679>>, <<8125, 8125>>, <<8127, 8129>>, <<8141, 8143>>,
      <<8157, 8159>>, <<8173, 8175>>, <<8189, 8190>>, <<8203, 8207>>,
      <<8216, 8217>>, <<8228, 8228>>, <<8231, 8231>>, <<8234, 8238>>,
      <<8288, 8292>>, <<8294, 8303>>, <<8305, 8305>>, <<8319, 8319>>,
      <<8336, 8348>>, <<8400, 8432>>, <<11388, 11389>>, <<11503, 11505>>,
      <<11631, 11631>>, <<11647, 11647>>, <<11744, 11775>>,
      <<11823, 11823>>, <<12293, 12293>>, <<12330, 12333>>,
      <<12337, 12341>>, <<12347, 12347>>, <<12441, 12446>>,
      <<12540, 12542>>, <<40981, 40981>>, <<42232, 42237>>,
      <<42508, 42508>>, <<42607, 42610>>, <<42612, 42621>>,
      <<42623, 42623>>, <<42652, 42655>>, <<42736, 42737>>,
      <<42752, 42785>>, <<42864, 42864>>, <<42888, 42890>>,
      <<42994, 42996>>, <<43000, 43001>>, <<43010, 43010>>,
      <<43014, 43014>>, <<43019, 43019>>, <<43045, 43046>>,
      <<43052, 43052>>, <<43204, 43205>>, <<43232, 43249>>,
      <<43263, 43263>>, <<43302, 43309>>, <<43335, 43345>>,
      <<43392, 43394>>, <<43443, 43443>>, <<43446, 43449>>,
      <<43452, 43453>>, <<43471, 43471>>, <<43493, 43494>>,
      <<43561, 43566>>, <<43569, 43570>>, <<43573, 43574>>,
      <<43587, 43587>>, <<43596, 43596>>, <<43632, 43632>>,
      <<43644, 43644>>, <<43696, 43696>>, <<43698, 43700>>,
      <<43703, 43704>>, <<43710, 43711>>, <<43713, 43713>>,
      <<43741, 43741>>, <<43756, 43757>>, <<43763, 43764>>,
      <<43766, 43766>>, <<43867, 43871>>, <<43881, 43883>>,
      <<44005, 44005>>, <<44008, 44008>>, <<44013, 44013>>,
      <<64286, 64286>>, <<64434, 64450>>, <<65024, 65039>>,
      <<65043, 65043>>, <<65056, 65071>>, <<65106, 65106>>,
      <<65109, 65109>>, <<65279, 65279>>, <<65287, 65287>>,
      <<65294, 65294>>, <<65306, 65306>>, <<65342, 65342>>,
      <<65344, 65344>>, <<65392, 65392>>, <<65438, 65439>>,
      <<65507, 65507>>, <<65529, 65531>>, <<66045, 66045>>,
      <<66272, 66272>>, <<66422, 66426>>, <<67456, 67461>>,
      <<67463, 67504>>, <<67506, 67514>>, <<68097, 68099>>,
      <<68101, 68102>>, <<68108, 68111>>, <<68152, 68154>>,
      <<68159, 68159>>, <<68325, 68326>>, <<68900, 68903>>,
      <<69291, 69292>>, <<69446, 69456>>, <<69506, 69509>>,
      <<69633, 69633>>, <<69688, 69702>>, <<69744, 69744>>,
      <<69747, 69748>>, <<69759, 69761>>, <<69811, 69814>>,
      <<69817, 69818>>, <<69821, 69821>>, <<69826, 69826>>,
      <<69837, 69837>>, <<69888, 69890>>, <<69927, 69931>>,
      <<69933, 69940>>, <<70003, 70003>>, <<70016, 70017>>,
      <<70070, 70078>>, <<70089, 70092>>, <<70095, 70095>>,
      <<70191, 70193>>, <<70196, 70196>>, <<70198, 70199>>,
      <<70206, 70206>>, <<70367, 70367>>, <<70371, 70378>>,
      <<70400, 70401>>, <<70459, 70460>>, <<70464, 70464>>,
      <<70502, 70508>>, <<70512, 70516>>, <<70712, 70719>>,
      <<70722, 70724>>, <<70726, 70726>>, <<70750, 70750>>,
      <<70835, 70840>>, <<70842, 70842>>, <<70847, 70848>>,
      <<70850, 70851>>, <<71090, 71093>>, <<71100, 71101>>,
      <<71103, 71104>>, <<71132, 71133>>, <<71219, 71226>>,
      <<71229, 71229>>, <<71231, 71232>>, <<71339, 71339>>,
      <<71341, 71341>>, <<71344, 71349>>, <<71351, 71351>>,
      <<71453, 71455>>, <<71458, 71461>>, <<71463, 71467>>,
      <<71727, 71735>>, <<71737, 71738>>, <<71995, 71996>>,
      <<71998, 71998>>, <<72003, 72003>>, <<72148, 72151>>,
      <<72154, 72155>>, <<72160, 72160>>, <<72193, 72202>>,
      <<72243, 72248>>, <<72251, 72254>>, <<72263, 72263>>,
      <<72273, 72278>>, <<72281, 72283>>, <<72330, 72342>>,
      <<72344, 72345>>, <<72752, 72758>>, <<72760, 72765>>,
      <<72767, 72767>>, <<72850, 72871>>, <<72874, 72880>>,
      <<72882, 72883>>, <<72885, 72886>>, <<73009, 73014>>,
      <<73018, 73018>>, <<73020, 73021>>, <<73023, 73029>>,
      <<73031, 73031>>, <<73104, 73105>>, <<73109, 73109>>,
      <<73111, 73111>>, <<73459, 73460>>, <<78896, 78904>>,
      <<92912, 92916>>, <<92976, 92982>>, <<92992, 92995>>,
      <<94031, 94031>>, <<94095, 94111>>, <<94176, 94177>>,
      <<94179, 94180>>, <<110576, 110579>>, <<110581, 110587>>,
      <<110589, 110590>>, <<113821, 113822>>, <<113824, 113827>>,
      <<118528, 118573>>, <<118576, 118598>>, <<119143, 119145>>,
      <<119155, 119170>>, <<119173, 119179>>, <<119210, 119213>>,
      <<119362, 119364>>, <<121344, 121398>>, <<121403, 121452>>,
      <<121461, 121461>>, <<121476, 121476>>, <<121499, 121503>>,
      <<121505, 121519>>, <<122880, 122886>>, <<122888, 122904>>,
      <<122907, 122913>>, <<122915, 122916>>, <<122918, 122922>>,
      <<123184, 123197>>, <<123566, 123566>>, <<123628, 123631>>,
      <<125136, 125142>>, <<125252, 125259>>, <<127995, 127999>>,
      <<917505, 917505>>, <<917536, 917631>>, <<917760, 917999>>
    }

\* Ranges <<first, last>> of the cased characters that are not skipped.
Cased ==
    {
      <<65, 90>>, <<97, 122>>, <<170, 170>>, <<181, 181>>, <<186, 186>>,
      <<192, 214>>, <<216, 246>>, <<248, 442>>, <<444, 447>>, <<452, 659>>,
      <<661, 687>>, <<880, 883>>, <<886, 887>>, <<891, 893>>, <<895, 895>>,
      <<902, 902>>, <<904, 906>>, <<908, 908>>, <<910, 929>>,
      <<931, 1013>>, <<1015, 1153>>, <<1162, 1327>>, <<1329, 1366>>,
      <<1376, 1416>>, <<4256, 4293>>, <<4295, 4295>>, <<4301, 4301>>,
      <<4304, 4346>>, <<4349, 4351>>, <<5024, 5109>>, <<5112, 5117>>,
      <<7296, 7304>>, <<7312, 7354>>, <<7357, 7359>>, <<7424, 7467>>,
      <<7531, 7543>>, <<7545, 7578>>, <<7680, 7957>>, <<7960, 7965>>,
      <<7968, 8005>>, <<8008, 8013>>, <<8016, 8023>>, <<8025, 8025>>,
      <<8027, 8027>>, <<8029, 8029>>, <<8031, 8061>>, <<8064, 8116>>,
      <<8118, 8124>>, <<8126, 8126>>, <<8130, 8132>>, <<8134, 8140>>,
      <<8144, 8147>>, <<8150, 8155>>, <<8160, 8172>>, <<8178, 8180>>,
      <<8182, 8188>>, <<8450, 8450>>, <<8455, 8455>>, <<8458, 8467>>,
      <<8469, 8469>>, <<8473, 8477>>, <<8484, 8484>>, <<8486, 8486>>,
      <<8488, 8488>>, <<8490, 8493>>, <<8495, 8500>>, <<8505, 8505>>,
      <<8508, 8511>>, <<8517, 8521>>, <<8526, 8526>>, <<8544, 8575>>,
      <<8579, 8580>>, <<9398, 9449>>, <<11264, 11387>>, <<11390, 11492>>,
      <<11499, 11502>>, <<11506, 11507>>, <<11520, 11557>>,
      <<11559, 11559>>, <<11565, 11565>>, <<42560, 42605>>,
      <<42624, 42651>>, <<42786, 42863>>, <<42865, 42887>>,
      <<42891, 42894>>, <<42896, 42954>>, <<42960, 42961>>,
      <<42963, 42963>>, <<42965, 42969>>, <<42997, 42998>>,
      <<43002, 43002>>, <<43824, 43866>>, <<43872, 43880>>,
      <<43888, 43967>>, <<64256, 64262>>, <<64275, 64279>>,
      <<65313, 65338>>, <<65345, 65370>>, <<66560, 66639>>,
      <<66736, 66771>>, <<66776, 66811>>, <<66928, 66938>>,
      <<66940, 66954>>, <<66956, 66962>>, <<66964, 66965>>,
      <<66967, 66977>>, <<66979, 66993>>, <<66995, 67001>>,
      <<67003, 67004>>, <<68736, 68786>>, <<68800, 68850>>,
      <<71840, 71903>>, <<93760, 93823>>, <<119808, 119892>>,
      <<119894, 119964>>, <<119966, 119967>>, <<119970, 119970>>,
      <<119973, 119974>>, <<119977, 119980>>, <<119982, 119993>>,
      <<119995, 119995>>, <<119997, 120003>>, <<120005, 120069>>,
      <<120071, 120074>>, <<120077, 120084>>, <<120086, 120092>>,
      <<120094, 120121>>, <<120123, 120126>>, <<120128, 120132>>,
      <<120134, 120134>>, <<120138, 120144>>, <<120146, 120485>>,
      <<120488, 120512>>, <<120514, 120538>>, <<120540, 120570>>,
      <<120572, 120596>>, <<120598, 120628>>, <<120630, 120654>>,
      <<120656, 120686>>, <<120688, 120712>>, <<120714, 120744>>,
      <<120746, 120770>>, <<120772, 120779>>, <<122624, 122633>>,
      <<122635, 122654>>, <<125184, 125251>>, <<127280, 127305>>,
      <<127312, 127337>>, <<127344, 127369>>
    }

InRanges(c, ranges) == \E r \in ranges : r[1] <= c /\ c <= r[2]

\* str.lower() turns the capital sigma U+03A3 at index i into the final
\* sigma U+03C2 when a cased letter precedes it and none follows it, the
\* case-ignorable characters in between skipped; into U+03C3 otherwise.
FinalSigma(s, i) ==
    LET before == {j \in 1..(i - 1) : ~InRanges(s[j], CaseIgnorable)}
        after == {j \in (i + 1)..Len(s) : ~InRanges(s[j], CaseIgnorable)}
    IN  /\ before # {}
        /\ InRanges(s[SetMax(before)], Cased)
        /\ after = {} \/ ~InRanges(s[SetMin(after)], Cased)

\* s.lower()
Lower(s) ==
    LET RECURSIVE Low(_)
        Low(i) ==
            IF i > Len(s) THEN <<>>
            ELSE (IF s[i] = 931
                  THEN (IF FinalSigma(s, i) THEN <<962>> ELSE <<963>>)
                  ELSE LowerChar(s[i])) \o Low(i + 1)
    IN  Low(1)

\* The class [\u0900-\u097Fa-zA-Z]; the danda U+0964 lies inside the block.
IsTokenChar(c) ==
    \/ 2304 <= c /\ c <= 2431
    \/ 97 <= c /\ c <= 122
    \/ 65 <= c /\ c <= 90

\* re.findall(r"[\u0900-\u097Fa-zA-Z]+", s): the maximal runs, left to right.
RECURSIVE FindRuns(_, _)
FindRuns(s, i) ==
    IF i > Len(s) THEN <<>>
    ELSE IF IsTokenChar(s[i])
    THEN LET j == RunEnd(s, i, IsTokenChar)
         IN  << SubSeq(s, i, j) >> \o FindRuns(s, j + 1)
    ELSE FindRuns(s, i + 1)

tokenize(sentence) ==
    SelectSeq(FindRuns(Lower(sentence), 1),
              LAMBDA t : t \notin STOPWORDS /\ Len(t) > 1)

----------------------------------------------------------------------------
(* Python floats: IEEE 754 binary64, round to nearest, ties to even *)

\* Natural numbers of any size are sequences of limbs in base 2^15, least
\* significant first, without high zero limbs; zero is the empty sequence.
LimbBase == 32768

LimbBits == 15

RECURSIVE BigFromInt(_)
BigFromInt(n) ==
    IF n = 0 THEN <<>> ELSE << n % LimbBase >> \o BigFromInt(n \div LimbBase)

RECURSIVE BigToInt(_)
BigToInt(X) ==
    IF X = <<>> THEN 0 ELSE Head(X) + LimbBase * BigToInt(Tail(X))

RECURSIVE BigTrim(_)
BigTrim(X) ==
    IF X = <<>> \/ X[Len(X)] # 0 THEN X ELSE BigTrim(SubSeq(X, 1, Len(X) - 1))

\* X * n for 0 <= n <= 2^15
BigMulSmall(X, n) ==
    LET RECURSIVE Mul(_, _)
        Mul(i, carry) ==
            IF i > Len(X) THEN BigFromInt(carry)
            ELSE LET t == X[i] * n + carry
                 IN  << t % LimbBase >> \o Mul(i + 1, t \div LimbBase)
    IN  BigTrim(Mul(1, 0))

\* Quotient and remainder of X by n, 1 <= n <= 2^15
BigDivSmall(X, n) ==
    LET RECURSIVE Div(_, _, _)
        Div(i, r, q) ==
            IF i = 0 THEN [q |-> BigTrim(q), r |-> r]
            ELSE Div(i - 1, (r * LimbBase + X[i]) % n,
                     << (r * LimbBase + X[i]) \div n >> \o q)
    IN  Div(Len(X), 0, <<>>)

BigAdd(X, Y) ==
    LET RECURSIVE Add(_, _)
        Add(i, carry) ==
            IF i > Len(X) /\ i > Len(Y) THEN BigFromInt(carry)
            ELSE LET t == (IF i <= Len(X) THEN X[i] ELSE 0)
                          + (IF i <= Len(Y) THEN Y[i] ELSE 0) + carry
                 IN  << t % LimbBase >> \o Add(i + 1, t \div LimbBase)
    IN  Add(1, 0)

\* -1, 0, 1 as X is below, equal to, above Y
BigCmp(X, Y) ==
    LET RECURSIVE Cmp(_)
        Cmp(i) ==
            IF i = 0 THEN 0
            ELSE IF X[i] < Y[i] THEN -1
            ELSE IF X[i] > Y[i] THEN 1
            ELSE Cmp(i - 1)
    IN  IF Len(X) < Len(Y) THEN -1
        ELSE IF Len(X) > Len(Y) THEN 1
        ELSE Cmp(Len(X))

\* X * 2^k
BigShiftLeft(X, k) ==
    IF X = <<>> THEN <<>>
    ELSE [i \in 1..(k \div LimbBits) |-> 0]
         \o BigMulSmall(X, 2 ^ (k % LimbBits))

\* The element of a set of one element.  TLC works out the argument of an
\* operator at every use of the parameter and a bound variable once, so a
\* value used many times is bound in a set of one element first.
Only(S) == CHOOSE v \in S : TRUE

\* X \div 2^k, and whether the division left no remainder
BigShiftRight(X, k) ==
    LET drop == Min2(k \div LimbBits, Len(X))
    IN  Only({ [q |-> d.q,
                exact |-> d.r = 0 /\ \A i \in 1..drop : X[i] = 0] :
               d \in { BigDivSmall(SubSeq(X, drop + 1, Len(X)),
                                   2 ^ (k % LimbBits)) } })

RECURSIVE IntBitLength(_)
IntBitLength(n) == IF n = 0 THEN 0 ELSE 1 + IntBitLength(n \div 2)

BigBitLength(X) ==
    IF X = <<>> THEN 0
    ELSE LimbBits * (Len(X) - 1) + IntBitLength(X[Len(X)])

\* A float >= 0 is [m, e] with value m * 2^e: m has exactly 53 bits, or is
\* zero with e = 0.  The inputs stay far from overflow and subnormals.
FloatZero == [m |-> <<>>, e |-> 0]

\* 1.0
FloatOne == [m |-> <<0, 0, 0, 128>>, e |-> -52]

\* Stands for the exception Python raises where a float was to be computed
\* (max() of an empty collection, division by zero).
Raises == [m |-> <<>>, e |-> -1]

MantissaBits == 53

\* X with its bits below the lowest 53 cut off and rounded to nearest
\* (ties to even), as a float; inexact tells that bits beyond X were lost
\* already.  len is the number of bits of X, and len > 53.
RoundCut(X, e, inexact, len) ==
    Only({ Only({ IF BigBitLength(m) > MantissaBits
                  THEN [m |-> BigShiftRight(m, 1).q, e |-> e + len - MantissaBits + 1]
                  ELSE [m |-> m, e |-> e + len - MantissaBits] :
                  m \in { IF half.r = 1 /\ (inexact \/ ~upper.exact
                                             \/ half.q[1] % 2 = 1)
                          THEN BigAdd(half.q, <<1>>)
                          ELSE half.q } }) :
           upper \in { BigShiftRight(X, len - MantissaBits - 1) },
           half \in { BigDivSmall(BigShiftRight(X, len - MantissaBits - 1).q, 2) } })

\* The float nearest to X * 2^e (ties to even); sticky tells that the exact
\* value lies above X * 2^e by less than 2^e.
FloatRound(X, e, sticky) ==
    Only({ IF V = <<>> THEN FloatZero
           ELSE IF BigBitLength(V) <= MantissaBits
           THEN [m |-> BigShiftLeft(V, MantissaBits - BigBitLength(V)),
                 e |-> e - (MantissaBits - BigBitLength(V))]
           ELSE RoundCut(V, e, sticky, BigBitLength(V)) :
           V \in { X } })

\* a / b for integers a >= 0, b > 0 (true division)
FloatDivInts(a, b) ==
    Only({ FloatRound(d.q, 0 - 5 * LimbBits, d.r # 0) :
           d \in { BigDivSmall(BigShiftLeft(BigFromInt(a), 5 * LimbBits), b) } })

\* x / n for a float x and an integer n > 0
FloatDivInt(x, n) ==
    Only({ IF n = 1 \/ v.m = <<>> THEN v
           ELSE Only({ FloatRound(d.q, v.e - 5 * LimbBits, d.r # 0) :
                       d \in { BigDivSmall(BigShiftLeft(v.m, 5 * LimbBits), n) } }) :
           v \in { x } })

\* x + y
FloatAdd(x, y) ==
    Only({ IF v.m = <<>> THEN w
           ELSE IF w.m = <<>> THEN v
           ELSE FloatRound(BigAdd(BigShiftLeft(v.m, v.e - Min2(v.e, w.e)),
                                  BigShiftLeft(w.m, w.e - Min2(v.e, w.e))),
                           Min2(v.e, w.e), FALSE) :
           v \in { x }, w \in { y } })

\* n * x for an integer n >= 0 and a float x
FloatMulInt(n, x) ==
    Only({ IF n = 1 THEN v ELSE FloatRound(BigMulSmall(v.m, n), v.e, FALSE) :
           v \in { x } })

\* int(x)
FloatTrunc(x) ==
    Only({ IF v.e >= 0 THEN BigToInt(BigShiftLeft(v.m, v.e))
           ELSE BigToInt(BigShiftRight(v.m, 0 - v.e).q) :
           v \in { x } })

\* -1, 0, 1 as x is below, equal to, above y
FloatCmp(x, y) ==
    IF x.m = <<>> \/ y.m = <<>>
    THEN (IF x.m = <<>> THEN 0 ELSE 1) - (IF y.m = <<>> THEN 0 ELSE 1)
    ELSE IF x.e < y.e THEN -1
    ELSE IF x.e > y.e THEN 1
    ELSE BigCmp(x.m, y.m)

----------------------------------------------------------------------------
(* score_sentences *)

\* A score is a float; 0.0 is the score of a sentence without tokens.
ZeroScore == FloatZero

\* The comparisons of the sort of summarize_text.
ScoreGreater(a, b) == FloatCmp(a, b) = 1
ScoreEqual(a, b) == FloatCmp(a, b) = 0

\* words.extend(tokenize(sentence)) for every sentence
AllWords(sentence_list) == Concat(MapSeq(sentence_list, tokenize))

\* Counter(words): each distinct word with its number of occurrences
Counter(words) ==
    [w \in {words[i] : i \in 1..Len(words)} |->
        Cardinality({i \in 1..Len(words) : words[i] = w})]

\* max(freqs.values())
MaxFreq(freqs) ==
    IF DOMAIN freqs = {} THEN 0
    ELSE SetMax({freqs[w] : w \in DOMAIN freqs})

\* sum(weighted[t] for t in token_list) / len(token_list), where
\* weighted[t] = freqs[t] / max_freq.  sum() adds from the left and rounds
\* every partial sum (CPython 3.11, the interpreter of this build).
MeanWeight(token_list, freqs, max_freq) ==
    LET RECURSIVE Sum(_, _)
        Sum(k, acc) ==
            IF k > Len(token_list) THEN acc
            ELSE Only({ Sum(k + 1, total) :
                        total \in { FloatAdd(acc, FloatDivInts(freqs[token_list[k]],
                                                                max_freq)) } })
    IN  IF max_freq = 0 \/ token_list = <<>> THEN Raises
        ELSE FloatDivInt(Sum(1, FloatZero), Len(token_list))

\* score_sentences without its two guards against empty collections.
score_sentences_unguarded(sentence_list) ==
    LET freqs == Counter(AllWords(sentence_list))
        max_freq == MaxFreq(freqs)
    IN  [i \in 1..Len(sentence_list) |->
            << sentence_list[i],
               MeanWeight(tokenize(sentence_list[i]), freqs, max_freq) >>]

score_sentences(sentence_list) ==
    LET freqs == Counter(AllWords(sentence_list))
        max_freq == MaxFreq(freqs)
    IN  IF sentence_list = <<>> THEN <<>>
        ELSE IF DOMAIN freqs = {}
        THEN [i \in 1..Len(sentence_list) |-> << sentence_list[i], ZeroScore >>]
        ELSE LET RECURSIVE Scores(_)
                 Scores(i) ==
                     IF i > Len(sentence_list) THEN <<>>
                     ELSE LET token_list == tokenize(sentence_list[i])
                              score == IF token_list = <<>> THEN ZeroScore
                                       ELSE MeanWeight(token_list, freqs, max_freq)
                          IN  << << sentence_list[i], score >> >> \o Scores(i + 1)
             IN  Scores(1)

----------------------------------------------------------------------------
(* summarize_text *)

\* max(min_sentences, int(len(sentences) * ratio)); the ratio <<a, b>> is the
\* float a / b, the product is rounded and int() drops its fraction.
KeepCount(n, r, m) ==
    Max2(m, IF r[1] >= 0
            THEN FloatTrunc(FloatMulInt(n, FloatDivInts(r[1], r[2])))
            ELSE 0 - FloatTrunc(FloatMulInt(n, FloatDivInts(0 - r[1], r[2]))))

\* A sort that puts the later of two equal scores first.
SortRank_later_first(sc, i) ==
    1 + Cardinality({j \in 1..Len(sc) :
            \/ ScoreGreater(sc[j][2], sc[i][2])
            \/ ScoreEqual(sc[j][2], sc[i][2]) /\ j > i})

\* 1-based position of scored[i] in sorted(scored, key=score, reverse=True);
\* Python's sort is stable, also with reverse=True.
SortRank(sc, i) ==
    1 + Cardinality({j \in 1..Len(sc) :
            \/ ScoreGreater(sc[j][2], sc[i][2])
            \/ ScoreEqual(sc[j][2], sc[i][2]) /\ j < i})

\* A slice that stops one entry early.
TopIndices_one_short(sc, keep_count) == {i \in 1..Len(sc) : SortRank(sc, i) < keep_count}

\* Indices of the entries in sorted(...)[:keep_count]; a negative keep_count
\* leaves out that many entries at the end.
TopIndices(sc, keep_count) ==
    {i \in 1..Len(sc) :
        SortRank(sc, i) <= (IF keep_count >= 0 THEN keep_count
                            ELSE Len(sc) + keep_count)}

\* top_sentences: the set of the sentence texts of sorted(...)[:keep_count]
TopSentences(sc, keep_count) == {sc[i][1] : i \in TopIndices(sc, keep_count)}

\* A selection that emits the chosen sentences in score order.
OrderedSummary_score_order(t, r, m) ==
    LET sents == split_sentences(t)
        sc == score_sentences(sents)
        k == Min2(KeepCount(Len(sents), r, m), Len(sents))
    IN  IF Len(sents) <= m THEN sents
        ELSE [p \in 1..k |-> sc[CHOOSE i \in 1..Len(sc) : SortRank(sc, i) = p][1]]

\* ordered_summary (all sentences on the early return)
OrderedSummary(t, r, m) ==
    LET sents == split_sentences(t)
    IN  IF Len(sents) <= m THEN sents
        ELSE LET top == TopSentences(score_sentences(sents),
                                     KeepCount(Len(sents), r, m))
             IN  SelectSeq(sents, LAMBDA x : x \in top)

\* An early return that hands back the trimmed text instead of the joined
\* sentences.
summarize_text_raw_short(t, r, m) ==
    IF Len(split_sentences(t)) <= m THEN Strip(t)
    ELSE Join(OrderedSummary(t, r, m), <<32>>)

summarize_text(t, r, m) == Join(OrderedSummary(t, r, m), <<32>>)

----------------------------------------------------------------------------
(* split_sections *)

\* The two chapter keywords of the heading pattern, lower-cased: the
\* Devanagari word for "chapter" and "chapter".
Keywords ==
    { <<2309, 2343, 2381, 2351, 2366, 2351>>,
      <<99, 104, 97, 112, 116, 101, 114>> }

\* The placeholder title, Hindi for "entire book".
WholeBookTitle ==
    <<2360, 2306, 2346, 2370, 2352, 2381, 2339, 32, 2346, 2369, 2360, 2381, 2340, 2325>>

\* The zeros of the decimal digits of Unicode; each is followed by its 1..9.
DigitZeros ==
    {
      48, 1632, 1776, 1984, 2406, 2534, 2662, 2790, 2918, 3046, 3174, 3302,
      3430, 3558, 3664, 3792, 3872, 4160, 4240, 6112, 6160, 6470, 6608,
      6784, 6800, 6992, 7088, 7232, 7248, 42528, 43216, 43264, 43472,
      43504, 43600, 44016, 65296, 66720, 68912, 69734, 69872, 69942, 70096,
      70384, 70736, 70864, 71248, 71360, 71472, 71904, 72016, 72784, 73040,
      73120, 92768, 92864, 93008, 120782, 120792, 120802, 120812, 120822,
      123200, 123632, 125264, 130032
    }

\* \d of a str pattern: any Unicode decimal digit.
IsDigit(c) ==
    \/ 48 <= c /\ c <= 57
    \/ c > 127 /\ \E z \in DigitZeros : z <= c /\ c <= z + 9

\* '.' matches everything but the newline.
NotNewline(c) == c # 10

\* '^' under re.MULTILINE: the start of the text or just after a newline.
LineStart(s, p) == p = 1 \/ s[p - 1] = 10

\* The keyword kw stands at index p, compared case-insensitively.
KeywordAt(s, p, kw) ==
    /\ p + Len(kw) - 1 <= Len(s)
    /\ \A k \in 1..Len(kw) : LowerChar(s[p + k - 1]) = << kw[k] >>

\* Last index of the match of ^(keyword\s*\d+.*)$ that starts at p, or 0 when
\* there is none: the keyword, any whitespace (newlines included), at least
\* one digit, then the rest of that line.
HeadingEnd(s, p) ==
    LET kws == {kw \in Keywords : KeywordAt(s, p, kw)}
    IN  IF ~LineStart(s, p) \/ kws = {} THEN 0
        ELSE LET kw == CHOOSE k \in kws : TRUE
                 d == RunEnd(s, p + Len(kw), IsSpace) + 1
             IN  IF d > Len(s) THEN 0
                 ELSE IF ~IsDigit(s[d]) THEN 0
                 ELSE RunEnd(s, d, NotNewline)

\* list(pattern.finditer(text)): the matches from index p on, left to right,
\* each as [start, end] (first and last index of the match).
RECURSIVE FindHeadings(_, _)
FindHeadings(s, p) ==
    IF p > Len(s) THEN <<>>
    ELSE LET e == HeadingEnd(s, p)
         IN  IF e > 0
             THEN << [start |-> p, end |-> e] >> \o FindHeadings(s, e + 1)
             ELSE FindHeadings(s, p + 1)

\* Section(title=match.group(1).strip(), content=text[start:end].strip())
\* for the idx-th match.
HeadingSection(s, matches, idx) ==
    LET last == IF idx + 1 <= Len(matches) THEN matches[idx + 1].start - 1
                ELSE Len(s)
    IN  [title |-> Strip(SubSeq(s, matches[idx].start, matches[idx].end)),
         content |-> Strip(SubSeq(s, matches[idx].end + 1, last))]

WholeBook(s) == [title |-> WholeBookTitle, content |-> Strip(s)]

\* split_sections that keeps the headings whose body is empty.
split_sections_keep_empty(t) ==
    LET matches == FindHeadings(t, 1)
    IN  IF matches = <<>> THEN << WholeBook(t) >>
        ELSE [idx \in 1..Len(matches) |-> HeadingSection(t, matches, idx)]

split_sections(t) ==
    LET matches == FindHeadings(t, 1)
        found == [idx \in 1..Len(matches) |-> HeadingSection(t, matches, idx)]
        secs == SelectSeq(found, LAMBDA sec : sec.content # <<>>)
    IN  IF matches = <<>> THEN << WholeBook(t) >>
        ELSE IF secs # <<>> THEN secs
        ELSE << WholeBook(t) >>

----------------------------------------------------------------------------
(* summarize_sections *)

\* The min_sentences default of summarize_text.
DefaultMinSentences == 2

\* f"{section.title}\n{summary}\n"
Block(title, section_summary) == title \o <<10>> \o section_summary \o <<10>>

\* output_lines computed from one frequency table pooled over all sections.
OutputLines_pooled(secs, r) ==
    LET all == Concat(MapSeq(secs, LAMBDA sec : split_sentences(sec.content)))
        freqs == Counter(AllWords(all))
        max_freq == MaxFreq(freqs)
        PooledScore(x) ==
            LET token_list == tokenize(x)
            IN  IF token_list = <<>> THEN << x, ZeroScore >>
                ELSE << x, MeanWeight(token_list, freqs, max_freq) >>
        PooledSummary(sec) ==
            LET sents == split_sentences(sec.content)
            IN  IF Len(sents) <= DefaultMinSentences THEN sents
                ELSE LET top == TopSentences(MapSeq(sents, PooledScore),
                                    KeepCount(Len(sents), r, DefaultMinSentences))
                     IN  SelectSeq(sents, LAMBDA x : x \in top)
    IN  MapSeq(secs, LAMBDA sec : Block(sec.title, Join(PooledSummary(sec), <<32>>)))

\* output_lines after the loop over the sections
OutputLines(secs, r) ==
    MapSeq(secs, LAMBDA sec :
        Block(sec.title, summarize_text(sec.content, r, DefaultMinSentences)))

summarize_sections(secs, r) == Strip(Join(OutputLines(secs, r), <<10>>))

----------------------------------------------------------------------------
(* Bounds and inputs *)

MaxChars == 6

\* Characters of the sentence-splitter inputs: 'a', '.', danda, ' ', '\n'.
SplitAlphabet == {97, 46, 2404, 32, 10}

RECURSIVE SeqsUpTo(_, _)
SeqsUpTo(S, n) ==
    IF n = 0 THEN { <<>> }
    ELSE LET shorter == SeqsUpTo(S, n - 1)
         IN  shorter \cup { Append(s, x) : s \in {t \in shorter : Len(t) = n - 1}, x \in S }

CharTexts == SeqsUpTo(SplitAlphabet, MaxChars)

MaxSentences == 3
MaxMin == 2

\* Sentence forms of the summariser inputs:
\*   "ab\u0964-ab\u0964"  "kd kd ef gh!"  "\n\u212AD?"  "\u0939\u0948 x."  "ab.cd"
\* (the danda is a token character; the Kelvin sign U+212A and 'D' are
\* lowered to "kd"; a stop-word and a one-letter word give no token; the
\* last form has no final terminator and runs into the next.  In the
\* first three forms "ab\u0964" stands twice and "kd" three times, and
\* the scores (2/3 + 2/3) / 2 and (1 + 1 + 1/3 + 1/3) / 4 are floats that
\* differ in the last place).
SentenceForms ==
    { <<97, 98, 2404, 45, 97, 98, 2404>>,
      <<107, 100, 32, 107, 100, 32, 101, 102, 32, 103, 104, 33>>,
      <<10, 8490, 68, 63>>,
      <<2361, 2376, 32, 120, 46>>,
      <<97, 98, 46, 99, 100>> }

\* The forms joined by single spaces.
SummaryTexts == { Join(fs, <<32>>) : fs \in SeqsUpTo(SentenceForms, MaxSentences) }

Ratios == { <<1, 4>>, <<1, 2>>, <<1, 1>> }

MaxLines == 4

\* Line forms of the documents:
\*   "chapter \u0663"   "\u0905\u0927\u094D\u092F\u093E\u092F\u0967 ab"   "Chapter"
\*   "2 cd."   "ab. Chapter 3!"   " "
\* (a keyword in another case with an Arabic-Indic digit, a keyword with a
\* Devanagari digit and a title,
\* a keyword with no number on its line, a line that starts with a digit, body
\* text that holds a heading away from the line start, a blank line).
LineForms ==
    { <<99, 104, 97, 112, 116, 101, 114, 32, 1635>>,
      <<2309, 2343, 2381, 2351, 2366, 2351, 2407, 32, 97, 98>>,
      <<67, 104, 97, 112, 116, 101, 114>>,
      <<50, 32, 99, 100, 46>>,
      <<97, 98, 46, 32, 67, 104, 97, 112, 116, 101, 114, 32, 51, 33>>,
      <<32>> }

\* The lines joined by newlines.
Documents == { Join(ls, <<10>>) : ls \in SeqsUpTo(LineForms, MaxLines) }

MaxSections == 2

\* Sections handed to summarize_sections directly:
\*   ("t", "ab. cd. ef ef.")  ("u", "cd cd cd.")  ("t", "ab. cd. ab!")  ("u", "")
SectionChoices ==
    { [title |-> <<116>>,
       content |-> <<97, 98, 46, 32, 99, 100, 46, 32, 101, 102, 32, 101, 102, 46>>],
      [title |-> <<117>>,
       content |-> <<99, 100, 32, 99, 100, 32, 99, 100, 46>>],
      [title |-> <<116>>,
       content |-> <<97, 98, 46, 32, 99, 100, 46, 32, 97, 98, 33>>],
      [title |-> <<117>>, content |-> <<>>] }

SectionLists == SeqsUpTo(SectionChoices, MaxSections)

----------------------------------------------------------------------------
(* State machine *)

\* The variables of main, convert_to_wav and split_text_for_tts before any
\* of them is called.
IdleMain ==
    /\ args = [ratio |-> <<3, 10>>, input_text |-> << <<>> >>,
               input_pdf |-> << <<>> >>, summary_output |-> << <<>> >>,
               audio_output |-> << <<>> >>, video_output |-> << <<>> >>,
               images_dir |-> << <<>> >>]
    /\ disk = [dirs |-> {}, files |-> {}, unreadable |-> {}, book |-> <<>>,
               pages |-> <<>>]
    /\ main_pc = "idle"
    /\ error = "none"
    /\ source_text = <<>>
    /\ events = <<>>
    /\ images = <<>>

IdleWav ==
    /\ audio_data = <<>>
    /\ mime_type = <<>>
    /\ parameters = [bits_per_sample |-> [neg |-> FALSE, mag |-> <<16>>],
                     rate |-> [neg |-> FALSE, mag |-> <<24000>>]]
    /\ wav = [raised |-> FALSE, bytes |-> <<>>]

IdleTts ==
    /\ max_chars = 1
    /\ tts_sentences = <<>>
    /\ tts_i = 1
    /\ current = <<>>
    /\ current_len = 0
    /\ tts_chunks = <<>>

IdleSummary ==
    /\ ratio = <<1, 1>>
    /\ min_sentences = DefaultMinSentences
    /\ sentences = <<>>
    /\ scored = <<>>
    /\ kept = <<>>
    /\ summary = <<>>
    /\ resummary = <<>>
    /\ sections = <<>>
    /\ output_lines = <<>>
    /\ output = <<>>
    /\ other_sections = <<>>
    /\ other_lines = <<>>

Idle == IdleSummary /\ IdleMain /\ IdleWav /\ IdleTts

InitSplit ==
    /\ text \in CharTexts
    /\ pc = "start"
    /\ Idle

SplitSentences ==
    /\ pc = "start"
    /\ sentences' = split_sentences(text)
    /\ pc' = "split"
    /\ UNCHANGED <<text, ratio, min_sentences, scored, kept, summary, resummary,
                   sections, output_lines, output, other_sections, other_lines>>
    /\ UNCHANGED <<mainVars, wavVars, ttsVars>>

NextSplit == SplitSentences

InitSum ==
    /\ text \in SummaryTexts
    /\ ratio \in Ratios
    /\ min_sentences \in 0..MaxMin
    /\ sentences = <<>>
    /\ scored = <<>>
    /\ kept = <<>>
    /\ summary = <<>>
    /\ resummary = <<>>
    /\ sections = <<>>
    /\ output_lines = <<>>
    /\ output = <<>>
    /\ other_sections = <<>>
    /\ other_lines = <<>>
    /\ pc = "start"
    /\ IdleMain /\ IdleWav /\ IdleTts

\* score_sentences(split_sentences(text))
ScoreSentences ==
    /\ pc = "start"
    /\ sentences' = split_sentences(text)
    /\ scored' = score_sentences(sentences')
    /\ pc' = "scored"
    /\ UNCHANGED <<text, ratio, min_sentences, kept, summary, resummary,
                   sections, output_lines, output, other_sections, other_lines>>
    /\ UNCHANGED <<mainVars, wavVars, ttsVars>>

\* summarize_text(text, ratio, min_sentences); scored stays empty on the
\* early return, where score_sentences is not called.
SummarizeText ==
    /\ pc = "start"
    /\ sentences' = split_sentences(text)
    /\ scored' = IF Len(sentences') <= min_sentences THEN <<>>
                 ELSE score_sentences(sentences')
    /\ kept' = OrderedSummary(text, ratio, min_sentences)
    /\ summary' = summarize_text(text, ratio, min_sentences)
    /\ pc' = "summarized"
    /\ UNCHANGED <<text, ratio, min_sentences, resummary,
                   sections, output_lines, output, other_sections, other_lines>>
    /\ UNCHANGED <<mainVars, wavVars, ttsVars>>

\* summarize_text applied to its own output, same ratio and min_sentences
Resummarize ==
    /\ pc = "summarized"
    /\ resummary' = summarize_text(summary, ratio, min_sentences)
    /\ pc' = "resummarized"
    /\ UNCHANGED <<text, ratio, min_sentences, sentences, scored, kept, summary,
                   sections, output_lines, output, other_sections, other_lines>>
    /\ UNCHANGED <<mainVars, wavVars, ttsVars>>

InitSec ==
    /\ text \in Documents
    /\ ratio \in Ratios
    /\ min_sentences = DefaultMinSentences
    /\ sentences = <<>>
    /\ scored = <<>>
    /\ kept = <<>>
    /\ summary = <<>>
    /\ resummary = <<>>
    /\ sections = <<>>
    /\ output_lines = <<>>
    /\ output = <<>>
    /\ other_sections = <<>>
    /\ other_lines = <<>>
    /\ pc = "start"
    /\ IdleMain /\ IdleWav /\ IdleTts

\* sections = split_sections(source_text)
SplitSections ==
    /\ pc = "start"
    /\ sections' = split_sections(text)
    /\ pc' = "sections"
    /\ UNCHANGED <<text, ratio, min_sentences, sentences, scored, kept, summary,
                   resummary, output_lines, output, other_sections, other_lines>>
    /\ UNCHANGED <<mainVars, wavVars, ttsVars>>

\* summary = summarize_sections(sections, ratio)
SummarizeSections ==
    /\ pc = "sections"
    /\ output_lines' = OutputLines(sections, ratio)
    /\ output' = summarize_sections(sections, ratio)
    /\ pc' = "done"
    /\ UNCHANGED <<text, ratio, min_sentences, sentences, scored, kept, summary,
                   resummary, sections, other_sections, other_lines>>
    /\ UNCHANGED <<mainVars, wavVars, ttsVars>>

NextSec == SplitSections \/ SummarizeSections

SpecSec == InitSec /\ [][NextSec]_vars

\* Two section lists to be summarised, one call after the other.
InitScope ==
    /\ sections \in SectionLists
    /\ other_sections \in SectionLists
    /\ ratio \in Ratios
    /\ min_sentences = DefaultMinSentences
    /\ text = <<>>
    /\ sentences = <<>>
    /\ scored = <<>>
    /\ kept = <<>>
    /\ summary = <<>>
    /\ resummary = <<>>
    /\ output_lines = <<>>
    /\ output = <<>>
    /\ other_lines = <<>>
    /\ pc = "sections"
    /\ IdleMain /\ IdleWav /\ IdleTts

\* summarize_sections(other_sections, ratio), a second call
SummarizeOther ==
    /\ pc = "done"
    /\ other_lines' = OutputLines(other_sections, ratio)
    /\ pc' = "both"
    /\ UNCHANGED <<text, ratio, min_sentences, sentences, scored, kept, summary,
                   resummary, sections, output_lines, output, other_sections>>
    /\ UNCHANGED <<mainVars, wavVars, ttsVars>>

NextScope == SummarizeSections \/ SummarizeOther

SpecScope == InitScope /\ [][NextScope]_vars

NextSum == ScoreSentences \/ SummarizeText \/ Resummarize

SpecSum == InitSum /\ [][NextSum]_vars

SpecSplit == InitSplit /\ [][NextSplit]_vars

----------------------------------------------------------------------------
(* main of the summary pipeline, one action per statement *)

\* IMAGE_SUFFIXES: ".jpg", ".jpeg", ".png", ".webp"
IMAGE_SUFFIXES ==
    { <<46, 106, 112, 103>>, <<46, 106, 112, 101, 103>>,
      <<46, 112, 110, 103>>, <<46, 119, 101, 98, 112>> }

\* Path.suffix of a file name: from the last dot on, unless that dot is the
\* first or the last character.
Suffix(name) ==
    LET dots == {i \in 1..Len(name) : name[i] = 46}
    IN  IF dots = {} THEN <<>>
        ELSE LET i == SetMax(dots)
             IN  IF i = 1 \/ i = Len(name) THEN <<>>
                 ELSE SubSeq(name, i, Len(name))

\* a < b for two names of one directory, as sorted orders them.
NameLess(a, b) ==
    \E k \in 1..(Min2(Len(a), Len(b)) + 1) :
        /\ \A j \in 1..(k - 1) : a[j] = b[j]
        /\ IF k > Len(a) THEN k <= Len(b)
           ELSE k <= Len(b) /\ a[k] < b[k]

\* sorted(names)
Sorted(names) ==
    LET RECURSIVE Rest(_)
        Rest(S) ==
            IF S = {} THEN <<>>
            ELSE LET least == CHOOSE a \in S : \A b \in S \ {a} : NameLess(a, b)
                 IN  <<least>> \o Rest(S \ {least})
    IN  Rest(names)

\* The list collect_related_images sorts: the entries of the directory with
\* an image suffix, in any letter case. The entries share their parent, so
\* the paths are ordered as their names are.
RelatedImages(files) ==
    Sorted({f \in files : Lower(Suffix(f)) \in IMAGE_SUFFIXES})

\* A Path is the sequence of its names, a name a sequence of code points
\* (not empty, not "." or "..", without "/", NUL and surrogates); <<>> is the
\* working directory. An option that was not given is None (no path has an
\* empty name).
None == << <<>> >>

\* Path.parent
Parent(p) == IF p = <<>> THEN <<>> ELSE SubSeq(p, 1, Len(p) - 1)

\* The file system is a record: dirs and files are the paths of the
\* directories and the regular files below the working directory, unreadable
\* the directories that lack the read permission (they cannot be listed or
\* opened, their entries can be reached and made), book the bytes of the text
\* file and pages what extract_text() gives for the pages of the PDF file.
\* The parent of every entry is a directory of the record.
\* Entries gives the names Path.iterdir() yields for the directory p.
Entries(d, p) ==
    { q[Len(p) + 1] :
        q \in { r \in d.dirs \cup d.files :
                  Len(r) = Len(p) + 1 /\ SubSeq(r, 1, Len(p)) = p } }

\* The bytes of a name as the system call gets it, encoded in UTF-8.
NameBytes(name) ==
    Len(name) + Cardinality({ i \in 1..Len(name) : name[i] >= 128 })
              + Cardinality({ i \in 1..Len(name) : name[i] >= 2048 })
              + Cardinality({ i \in 1..Len(name) : name[i] >= 65536 })

\* A name of more than NAME_MAX = 255 bytes
NameTooLong(name) == NameBytes(name) > 255

\* A path that does not fit PATH_MAX = 4096 bytes, its names joined by "/"
\* and the final NUL counted
PathTooLong(p) ==
    LET RECURSIVE Sum(_)
        Sum(k) == IF k > Len(p) THEN 0 ELSE Sum(k + 1) + NameBytes(p[k]) + 1
    IN  Sum(1) > 4096

\* os.stat(p): "dir" or "file" for what p names, or the errno of the first
\* failure met as the path is followed from the left.
Stat(d, p) ==
    LET RECURSIVE Walk(_)
        Walk(k) ==
            IF k > Len(p) THEN "dir"
            ELSE IF NameTooLong(p[k]) THEN "ENAMETOOLONG"
            ELSE IF SubSeq(p, 1, k) \in d.files
            THEN IF k = Len(p) THEN "file" ELSE "ENOTDIR"
            ELSE IF SubSeq(p, 1, k) \in d.dirs THEN Walk(k + 1)
            ELSE "ENOENT"
    IN  IF PathTooLong(p) THEN "ENAMETOOLONG" ELSE Walk(1)

\* p.mkdir(parents=True, exist_ok=True): the exception it raises, or "none",
\* and the file system it leaves. The missing directories are made from the
\* top, so those above a name that is too long stay when the call fails.
MakeDirs(d, p) ==
    LET RECURSIVE Walk(_, _)
        Walk(k, made) ==
            IF k > Len(p) THEN [error |-> "none", disk |-> made]
            ELSE IF NameTooLong(p[k]) THEN [error |-> "OSError", disk |-> made]
            ELSE IF SubSeq(p, 1, k) \in made.files
            THEN [error |-> IF k = Len(p) THEN "FileExistsError"
                            ELSE "NotADirectoryError",
                  disk |-> made]
            ELSE Only({ Walk(k + 1, next) :
                        next \in { [made EXCEPT !.dirs = @ \cup { SubSeq(p, 1, k) }] } })
    IN  IF PathTooLong(p) THEN [error |-> "OSError", disk |-> d] ELSE Walk(1, d)

MkdirError(d, p) == MakeDirs(d, p).error

\* The file system after p.mkdir(parents=True, exist_ok=True) has returned
\* or raised.
Mkdir(d, p) == MakeDirs(d, p).disk

\* Opening p for writing: the exception, or "none".
WriteError(d, p) ==
    LET s == Stat(d, p)
    IN  IF s = "ENAMETOOLONG" THEN "OSError"
        ELSE IF s = "ENOTDIR" THEN "NotADirectoryError"
        ELSE IF s = "dir" THEN "IsADirectoryError"
        ELSE IF s = "ENOENT" /\ Stat(d, Parent(p)) # "dir" THEN "FileNotFoundError"
        ELSE "none"

\* Opening p for reading: the exception, or "none".
ReadError(d, p) ==
    LET s == Stat(d, p)
    IN  IF s = "ENAMETOOLONG" THEN "OSError"
        ELSE IF s = "ENOTDIR" THEN "NotADirectoryError"
        ELSE IF s = "ENOENT" THEN "FileNotFoundError"
        ELSE IF s = "file" THEN "none"
        ELSE IF p \in d.unreadable THEN "PermissionError"
        ELSE "IsADirectoryError"

\* bytes.decode("utf-8"), strict: the code points, or error for a sequence
\* that is no UTF-8 (a stray or missing continuation byte, an overlong form,
\* a surrogate, a code point above U+10FFFF).
Utf8Decode(bytes) ==
    LET n == Len(bytes)
        At(i) == IF i <= n THEN bytes[i] ELSE 0
        Cont(i) == 128 <= At(i) /\ At(i) <= 191
        RECURSIVE Dec(_, _)
        Dec(i, acc) ==
            IF i > n THEN [error |-> FALSE, text |-> acc]
            ELSE LET b == bytes[i]
                 IN  IF b < 128 THEN Dec(i + 1, Append(acc, b))
                     ELSE IF 194 <= b /\ b <= 223 /\ Cont(i + 1)
                     THEN Dec(i + 2, Append(acc, (b - 192) * 64 + (At(i + 1) - 128)))
                     ELSE IF /\ 224 <= b /\ b <= 239
                             /\ Cont(i + 1) /\ Cont(i + 2)
                             /\ (b = 224 => At(i + 1) >= 160)
                             /\ (b = 237 => At(i + 1) <= 159)
                     THEN Dec(i + 3, Append(acc, (b - 224) * 4096
                                                   + (At(i + 1) - 128) * 64
                                                   + (At(i + 2) - 128)))
                     ELSE IF /\ 240 <= b /\ b <= 244
                             /\ Cont(i + 1) /\ Cont(i + 2) /\ Cont(i + 3)
                             /\ (b = 240 => At(i + 1) >= 144)
                             /\ (b = 244 => At(i + 1) <= 143)
                     THEN Dec(i + 4, Append(acc, (b - 240) * 262144
                                                   + (At(i + 1) - 128) * 4096
                                                   + (At(i + 2) - 128) * 64
                                                   + (At(i + 3) - 128)))
                     ELSE [error |-> TRUE, text |-> <<>>]
    IN  Dec(1, <<>>)

\* str.encode("utf-8"), strict: the bytes, or error for a text that holds a
\* surrogate.
Utf8Encode(s) ==
    LET Enc(c) ==
            IF c < 128 THEN << c >>
            ELSE IF c < 2048 THEN << 192 + (c \div 64), 128 + (c % 64) >>
            ELSE IF c < 65536
            THEN << 224 + (c \div 4096), 128 + ((c \div 64) % 64), 128 + (c % 64) >>
            ELSE << 240 + (c \div 262144), 128 + ((c \div 4096) % 64),
                    128 + ((c \div 64) % 64), 128 + (c % 64) >>
        RECURSIVE From(_)
        From(i) == IF i > Len(s) THEN <<>> ELSE Enc(s[i]) \o From(i + 1)
    IN  IF \E i \in 1..Len(s) : 55296 <= s[i] /\ s[i] <= 57343
        THEN [error |-> TRUE, bytes |-> <<>>]
        ELSE [error |-> FALSE, bytes |-> From(1)]

\* The newline translation of a file read in text mode: "\r\n" and a lone
\* "\r" become "\n".
UniversalNewlines(s) ==
    LET RECURSIVE Tr(_, _)
        Tr(i, acc) ==
            IF i > Len(s) THEN acc
            ELSE IF s[i] = 13
            THEN Tr(IF i < Len(s) /\ s[i + 1] = 10 THEN i + 2 ELSE i + 1,
                    Append(acc, 10))
            ELSE Tr(i + 1, Append(acc, s[i]))
    IN  Tr(1, <<>>)

\* extract_text_from_pdf: the stripped pages that are not empty, joined by
\* a blank line.
PdfText(pages) ==
    Join(SelectSeq(MapSeq(pages, Strip), LAMBDA p : p # <<>>), <<10, 10>>)

\* collect_related_images(images_dir): the error it raises, or "none".
\* Path.exists() lets the error of a name that is too long through.
CollectError(d, images_dir) ==
    IF Stat(d, images_dir) = "ENAMETOOLONG" THEN "OSError"
    ELSE IF Stat(d, images_dir) # "dir" THEN "Images directory not found"
    ELSE IF images_dir \in d.unreadable THEN "PermissionError"
    ELSE IF RelatedImages(Entries(d, images_dir)) = <<>>
    THEN "No related images found in directory"
    ELSE "none"

\* 0.1 <= ratio <= 0.9, the ratio a fraction <<numerator, denominator>>
RatioAccepted_no_lower_bound(r) == 10 * r[1] <= 9 * r[2]

RatioAccepted(r) == r[2] <= 10 * r[1] /\ 10 * r[1] <= 9 * r[2]

\* The checks of main before it collects the images of a requested video.
VideoArgsError_images_only(a) ==
    IF a.images_dir = None
    THEN "--video-output requires --images-dir with related images"
    ELSE "none"

VideoArgsError(a) ==
    IF a.audio_output = None THEN "--video-output requires --audio-output"
    ELSE IF a.images_dir = None
    THEN "--video-output requires --images-dir with related images"
    ELSE "none"

MaxFiles == 2

\* Names:  "imgs"  "book.txt"  "book.pdf"  "s.txt"  "s.png"  "a.mp3"  "sub"
\* "v.mp4"  "vid"  "a.jpg", and a name of 86 letters U+0915, 258 bytes.
Imgs == <<105, 109, 103, 115>>
BookTxt == <<98, 111, 111, 107, 46, 116, 120, 116>>
BookPdf == <<98, 111, 111, 107, 46, 112, 100, 102>>
STxt == <<115, 46, 116, 120, 116>>
SPng == <<115, 46, 112, 110, 103>>
AMp3 == <<97, 46, 109, 112, 51>>
SubDir == <<115, 117, 98>>
VMp4 == <<118, 46, 109, 112, 52>>
VidDir == <<118, 105, 100>>
AJpg == <<97, 46, 106, 112, 103>>
LongName == [i \in 1..86 |-> 2325]

\* The file system after data has been written to p: the file is there, and
\* what it held is replaced. The record keeps the bytes of book.txt; a
\* book.pdf that is written over holds the pages of no PDF.
WriteFile(d, p, data) ==
    [d EXCEPT !.files = @ \cup {p},
              !.book = IF p = <<BookTxt>> THEN data ELSE @,
              !.pages = IF p = <<BookPdf>> THEN <<>> ELSE @]

\* What gTTS and ffmpeg write is made outside the repository: any bytes,
\* here none or one.
ToolBytes == { <<>>, <<0>> }

\* Directory entries: "a.jpg"  "b.PNG"  "c.txt"
DirNames ==
    { AJpg, <<98, 46, 80, 78, 71>>, <<99, 46, 116, 120, 116>> }

\* --summary-output: s.txt, imgs/s.png, imgs, imgs/a.jpg/s.txt
SummaryPaths ==
    { <<STxt>>, <<Imgs, SPng>>, <<Imgs>>, <<Imgs, AJpg, STxt>> }

\* --audio-output: a.mp3, imgs/sub/a.mp3, s.txt/a.mp3, imgs
AudioPaths ==
    { <<AMp3>>, <<Imgs, SubDir, AMp3>>, <<STxt, AMp3>>, <<Imgs>> }

\* --video-output: v.mp4, imgs/vid/v.mp4, a.mp3/v.mp4, imgs
VideoPaths ==
    { <<VMp4>>, <<Imgs, VidDir, VMp4>>, <<AMp3, VMp4>>, <<Imgs>> }

\* --images-dir: imgs, or a name too long for the file system
ImagesDirs == { <<Imgs>>, <<LongName>> }

\* Ratios on the command line: 0, 0.05, 0.1, 0.3, 0.9, 0.95, 1
MainRatios ==
    { <<0, 1>>, <<1, 20>>, <<1, 10>>, <<3, 10>>, <<9, 10>>, <<19, 20>>,
      <<1, 1>> }

\* Text files: empty, "ab\u0964 cd ab! ab.", "chapter 1\r\nab. cd. ab!"
\* and one that is not UTF-8.
MainFiles ==
    { <<>>,
      <<97, 98, 224, 165, 164, 32, 99, 100, 32, 97, 98, 33, 32, 97, 98, 46>>,
      <<99, 104, 97, 112, 116, 101, 114, 32, 49, 13, 10,
        97, 98, 46, 32, 99, 100, 46, 32, 97, 98, 33>>,
      <<255, 254, 97, 0>> }

\* The texts read_text gives for the files that are UTF-8.
MainTexts ==
    { UniversalNewlines(Utf8Decode(f).text) :
        f \in { g \in MainFiles : ~Utf8Decode(g).error } }

\* PDF files by the text of their pages: no page, pages without text, a
\* page "ab\ud83d." with a lone surrogate, and " ab. cd ab! ab. \n" followed
\* by an empty page and "chapter 1\nab. cd."
MainPdfs ==
    { <<>>,
      << <<32>>, <<>> >>,
      << <<97, 98, 55357, 46>> >>,
      << <<32, 97, 98, 46, 32, 99, 100, 32, 97, 98, 33, 32, 97, 98, 46, 32, 10>>,
         <<>>,
         <<99, 104, 97, 112, 116, 101, 114, 32, 49, 10, 97, 98, 46, 32, 99, 100, 46>> >> }

\* The images directory at the start of a run: absent, or holding up to
\* MaxFiles files, or holding a.jpg and closed to listing.
Directories ==
    { [dirs |-> {}, files |-> {}, unreadable |-> {}] } \cup
    { [dirs |-> { <<Imgs>> }, files |-> { <<Imgs, f>> : f \in fl },
       unreadable |-> {}] :
        fl \in { S \in SUBSET DirNames : Cardinality(S) <= MaxFiles } } \cup
    { [dirs |-> { <<Imgs>> }, files |-> { <<Imgs, AJpg>> },
       unreadable |-> { <<Imgs>> }] }

\* The source files at the start of a run: the text file absent or holding
\* the bytes, the PDF file absent or holding the pages.
Sources ==
    { [files |-> {}, book |-> <<>>, pages |-> <<>>] } \cup
    { [files |-> { <<BookTxt>> }, book |-> b, pages |-> <<>>] : b \in MainFiles } \cup
    { [files |-> { <<BookPdf>> }, book |-> <<>>, pages |-> p] : p \in MainPdfs }

Disks ==
    { [dirs |-> d.dirs, files |-> d.files \cup s.files,
       unreadable |-> d.unreadable, book |-> s.book, pages |-> s.pages] :
        d \in Directories, s \in Sources }

DefaultRatio == <<3, 10>>

\* Command lines with every option given and the outputs in the working
\* directory, but for one option that names what the file system refuses (a
\* name of 258 bytes, a path of 17 names of 240 bytes each, 4096 bytes with
\* the "/" between them, a directory as the text file) or an output that is
\* the text file itself.
LongArgs ==
    LET plain == [ratio |-> DefaultRatio, input_text |-> <<BookTxt>>,
                  input_pdf |-> None, summary_output |-> <<STxt>>,
                  audio_output |-> <<AMp3>>, video_output |-> <<VMp4>>,
                  images_dir |-> <<Imgs>>]
        deep == [k \in 1..17 |-> [i \in 1..80 |-> 2325]]
    IN  { [plain EXCEPT ![o[1]] = o[2]] :
            o \in { <<"input_text", <<LongName>>>>, <<"input_text", <<Imgs>>>>,
                    <<"summary_output", <<LongName>>>>,
                    <<"summary_output", <<SubDir, LongName, STxt>>>>,
                    <<"audio_output", <<LongName>>>>,
                    <<"audio_output", <<SubDir, LongName, AMp3>>>>,
                    <<"video_output", <<VMp4, LongName>>>>,
                    <<"video_output", <<VidDir, LongName, VMp4>>>>,
                    <<"images_dir", deep>>,
                    <<"summary_output", <<BookTxt>>>>,
                    <<"audio_output", <<BookTxt>>>>,
                    <<"video_output", <<BookTxt>>>> } }

\* The runs studied vary the ratio and the source with the outputs outside
\* the images directory, or the places of the outputs with the default
\* ratio and one text file, or are those of LongArgs; a source file no run
\* opens is left out.
PlainOutputs(a, d) ==
    /\ a.summary_output = <<STxt>>
    /\ a.audio_output \in { None, <<AMp3>> }
    /\ a.video_output \in { None, <<VMp4>> }
    /\ a.images_dir \in { None, <<Imgs>> }
    /\ d.unreadable = {}

PlainSource(a, d) ==
    /\ a.ratio = DefaultRatio
    /\ a.input_text # None /\ a.input_pdf = None
    /\ <<BookTxt>> \in d.files
    /\ Len(d.book) > 4 /\ d.book[1] = 97

\* A run of main: text is the argument of a direct call of summarize_text,
\* ratio the --ratio it is given.
InitMain ==
    /\ text \in MainTexts
    /\ disk \in Disks
    /\ \/ /\ args \in [ratio : MainRatios,
                       input_text : { None, <<BookTxt>> },
                       input_pdf : { None, <<BookPdf>> },
                       summary_output : SummaryPaths,
                       audio_output : { None } \cup AudioPaths,
                       video_output : { None } \cup VideoPaths,
                       images_dir : { None } \cup ImagesDirs]
          /\ PlainOutputs(args, disk) \/ PlainSource(args, disk)
       \/ /\ args \in LongArgs
          /\ PlainSource(args, disk)
    /\ <<BookTxt>> \in disk.files => args.input_text # None /\ args.input_pdf = None
    /\ <<BookPdf>> \in disk.files => args.input_pdf # None /\ args.input_text = None
    /\ IF <<BookTxt>> \in disk.files /\ ~Utf8Decode(disk.book).error
       THEN text = UniversalNewlines(Utf8Decode(disk.book).text)
       ELSE text = <<>>
    /\ ratio = args.ratio
    /\ min_sentences = DefaultMinSentences
    /\ main_pc = "check_ratio"
    /\ error = "none"
    /\ source_text = <<>>
    /\ events = <<>>
    /\ images = <<>>
    /\ sentences = <<>>
    /\ scored = <<>>
    /\ kept = <<>>
    /\ summary = <<>>
    /\ resummary = <<>>
    /\ sections = <<>>
    /\ output_lines = <<>>
    /\ output = <<>>
    /\ other_sections = <<>>
    /\ other_lines = <<>>
    /\ pc = "start"
    /\ IdleWav /\ IdleTts

\* main raises: the run ends with the exception.
Raise(e) ==
    /\ error' = e
    /\ main_pc' = "raised"

\* if not (0.1 <= args.ratio <= 0.9): raise ValueError
MainCheckRatio ==
    /\ main_pc = "check_ratio"
    /\ IF RatioAccepted(args.ratio)
       THEN main_pc' = "load" /\ error' = error
       ELSE Raise("--ratio must be between 0.1 and 0.9")
    /\ UNCHANGED <<args, disk, source_text, events, images>>
    /\ UNCHANGED <<summaryVars, pc, wavVars, ttsVars>>

\* source_text = load_source_text(args.input_text, args.input_pdf). The text
\* file is opened, decoded and its newlines translated; the PDF is read by
\* pypdf, which may be missing and may reject the file. events records that
\* the source was opened.
MainLoadSource ==
    /\ main_pc = "load"
    /\ IF (args.input_text # None) = (args.input_pdf # None)
       THEN /\ Raise("Provide exactly one source: --input-text or --input-pdf")
            /\ UNCHANGED <<source_text, events>>
       ELSE IF args.input_text # None
       THEN /\ events' = Append(events, "read")
            /\ IF ReadError(disk, args.input_text) # "none"
               THEN Raise(ReadError(disk, args.input_text))
                    /\ source_text' = source_text
               ELSE IF Utf8Decode(disk.book).error
               THEN Raise("UnicodeDecodeError") /\ source_text' = source_text
               ELSE /\ source_text' = UniversalNewlines(Utf8Decode(disk.book).text)
                    /\ main_pc' = "summarize"
                    /\ error' = error
       ELSE \/ /\ Raise("PDF input requires pypdf. Install with: pip install pypdf")
               /\ UNCHANGED <<source_text, events>>
            \/ /\ events' = Append(events, "read")
               /\ IF ReadError(disk, args.input_pdf) # "none"
                  THEN Raise(ReadError(disk, args.input_pdf))
                       /\ source_text' = source_text
                  ELSE \/ /\ Raise("PdfReadError")
                          /\ source_text' = source_text
                       \/ IF Strip(PdfText(disk.pages)) = <<>>
                          THEN /\ Raise("No extractable text found in PDF")
                               /\ source_text' = source_text
                          ELSE /\ source_text' = PdfText(disk.pages)
                               /\ main_pc' = "summarize"
                               /\ error' = error
    /\ UNCHANGED <<args, disk, images>>
    /\ UNCHANGED <<summaryVars, pc, wavVars, ttsVars>>

\* sections = split_sections(source_text)
\* summary = summarize_sections(sections, ratio=args.ratio)
MainSummarize ==
    /\ main_pc = "summarize"
    /\ sections' = split_sections(source_text)
    /\ output_lines' = OutputLines(sections', args.ratio)
    /\ output' = summarize_sections(sections', args.ratio)
    /\ main_pc' = "write_summary"
    /\ UNCHANGED <<text, ratio, min_sentences, sentences, scored, kept, summary,
                   resummary, other_sections, other_lines>>
    /\ UNCHANGED <<args, disk, error, source_text, events, images>>
    /\ UNCHANGED <<pc, wavVars, ttsVars>>

\* args.summary_output.parent.mkdir(parents=True, exist_ok=True)
\* args.summary_output.write_text(summary, encoding="utf-8"): the file is
\* opened, which empties it, and then the summary is encoded and written.
MainWriteSummary ==
    /\ main_pc = "write_summary"
    /\ LET p == args.summary_output
           made == Mkdir(disk, Parent(p))
       IN  IF MkdirError(disk, Parent(p)) # "none"
           THEN Raise(MkdirError(disk, Parent(p)))
                /\ disk' = made /\ events' = events
           ELSE IF WriteError(made, p) # "none"
           THEN Raise(WriteError(made, p)) /\ disk' = made /\ events' = events
           ELSE IF Utf8Encode(output).error
           THEN Raise("UnicodeEncodeError")
                /\ disk' = WriteFile(made, p, <<>>) /\ events' = events
           ELSE /\ disk' = WriteFile(made, p, Utf8Encode(output).bytes)
                /\ events' = Append(events, "summary")
                /\ main_pc' = "audio"
                /\ error' = error
    /\ UNCHANGED <<args, source_text, images>>
    /\ UNCHANGED <<summaryVars, pc, wavVars, ttsVars>>

\* if args.audio_output: create_audio(summary, args.audio_output). gTTS may
\* be missing; its save asks the speech service, which may fail, and opens
\* the file, in either order.
MainAudio ==
    /\ main_pc = "audio"
    /\ IF args.audio_output = None
       THEN /\ main_pc' = "video"
            /\ UNCHANGED <<error, events, disk>>
       ELSE LET p == args.audio_output
                made == Mkdir(disk, Parent(p))
            IN  \/ /\ Raise("gTTS is required for audio output. Install it with: pip install gTTS")
                   /\ UNCHANGED <<disk, events>>
                \/ IF MkdirError(disk, Parent(p)) # "none"
                   THEN Raise(MkdirError(disk, Parent(p)))
                        /\ disk' = made /\ events' = events
                   ELSE \/ /\ Raise("gTTSError")
                           /\ disk' = made
                           /\ events' = events
                        \/ IF WriteError(made, p) # "none"
                           THEN Raise(WriteError(made, p))
                                /\ disk' = made /\ events' = events
                           ELSE \/ /\ disk' \in { WriteFile(made, p, b) : b \in ToolBytes }
                                   /\ events' = Append(events, "audio")
                                   /\ main_pc' = "video"
                                   /\ error' = error
                                \/ /\ Raise("gTTSError")
                                   /\ disk' \in { WriteFile(made, p, b) : b \in ToolBytes }
                                   /\ events' = events
    /\ UNCHANGED <<args, source_text, images>>
    /\ UNCHANGED <<summaryVars, pc, wavVars, ttsVars>>

\* if args.video_output: the two checks of the arguments
MainVideoArgs ==
    /\ main_pc = "video"
    /\ IF args.video_output = None
       THEN main_pc' = "returned" /\ error' = error
       ELSE IF VideoArgsError(args) # "none"
       THEN Raise(VideoArgsError(args))
       ELSE main_pc' = "collect" /\ error' = error
    /\ UNCHANGED <<args, disk, source_text, events, images>>
    /\ UNCHANGED <<summaryVars, pc, wavVars, ttsVars>>

\* images = collect_related_images(args.images_dir)
MainCollectImages ==
    /\ main_pc = "collect"
    /\ IF CollectError(disk, args.images_dir) # "none"
       THEN Raise(CollectError(disk, args.images_dir)) /\ images' = images
       ELSE /\ images' = RelatedImages(Entries(disk, args.images_dir))
            /\ main_pc' = "create_video"
            /\ error' = error
    /\ UNCHANGED <<args, disk, source_text, events>>
    /\ UNCHANGED <<summaryVars, pc, wavVars, ttsVars>>

\* create_video_from_audio(args.audio_output, images, args.video_output).
\* ffmpeg or ffprobe may be missing, ffprobe may exit with an error or print
\* no number, and ffmpeg may exit with an error, its output written or not;
\* it exits with an error when it cannot open the output.
MainCreateVideo ==
    /\ main_pc = "create_video"
    /\ LET p == args.video_output
           made == Mkdir(disk, Parent(p))
       IN  \/ /\ Raise("ffmpeg is required for video generation.")
              /\ UNCHANGED <<disk, events>>
           \/ /\ Raise("ffprobe is required for video generation.")
              /\ UNCHANGED <<disk, events>>
           \/ /\ Raise("CalledProcessError")
              /\ UNCHANGED <<disk, events>>
           \/ /\ Raise("could not convert string to float")
              /\ UNCHANGED <<disk, events>>
           \/ IF MkdirError(disk, Parent(p)) # "none"
              THEN Raise(MkdirError(disk, Parent(p)))
                   /\ disk' = made /\ events' = events
              ELSE \/ /\ WriteError(made, p) = "none"
                      /\ disk' \in { WriteFile(made, p, b) : b \in ToolBytes }
                      /\ events' = Append(events, "video")
                      /\ main_pc' = "returned"
                      /\ error' = error
                   \/ /\ Raise("CalledProcessError")
                      /\ disk' \in { made } \cup
                                   (IF WriteError(made, p) # "none" THEN {}
                                    ELSE { WriteFile(made, p, b) : b \in ToolBytes })
                      /\ events' = events
    /\ UNCHANGED <<args, source_text, images>>
    /\ UNCHANGED <<summaryVars, pc, wavVars, ttsVars>>

\* summarize_text called on its own, once main has ended.
MainDirectCall ==
    /\ main_pc \in { "returned", "raised" }
    /\ SummarizeText

NextMain ==
    \/ MainCheckRatio
    \/ MainLoadSource
    \/ MainSummarize
    \/ MainWriteSummary
    \/ MainAudio
    \/ MainVideoArgs
    \/ MainCollectImages
    \/ MainCreateVideo
    \/ MainDirectCall

SpecMain == InitMain /\ [][NextMain]_vars

----------------------------------------------------------------------------
(* parse_audio_mime_type and convert_to_wav *)

\* s.startswith(prefix)
StartsWith(s, prefix) ==
    Len(s) >= Len(prefix) /\ SubSeq(s, 1, Len(prefix)) = prefix

\* s.split(sep), sep one character
SplitOn(s, sep) ==
    LET RECURSIVE Parts(_, _)
        Parts(start, i) ==
            IF i > Len(s) THEN << SubSeq(s, start, Len(s)) >>
            ELSE IF s[i] = sep
            THEN << SubSeq(s, start, i - 1) >> \o Parts(i + 1, i + 1)
            ELSE Parts(start, i + 1)
    IN  Parts(1, 1)

\* s.split(sep, 1)[1]: what follows the first sep; the callers know s holds one.
AfterFirst(s, sep) ==
    LET at == SetMin({i \in 1..Len(s) : s[i] = sep})
    IN  SubSeq(s, at + 1, Len(s))

DigitValue(c) == c - SetMax({z \in DigitZeros : z <= c})

\* A Python int has no width: it is [neg, mag], mag its absolute value as
\* limbs (see LimbBase) and neg whether it is below zero.
PyInt(n) == [neg |-> n < 0, mag |-> BigFromInt(IF n < 0 THEN 0 - n ELSE n)]

\* X * Y
BigMul(X, Y) ==
    LET RECURSIVE Sum(_, _)
        Sum(i, acc) ==
            IF i > Len(Y) THEN acc
            ELSE Only({ Sum(i + 1, next) :
                        next \in { BigAdd(acc, [k \in 1..(i - 1) |-> 0]
                                                \o BigMulSmall(X, Y[i])) } })
    IN  BigTrim(Sum(1, <<>>))

\* a * b of Python ints
PyMul(a, b) ==
    LET mag == BigMul(a.mag, b.mag)
    IN  [neg |-> mag # <<>> /\ a.neg # b.neg, mag |-> mag]

\* a // n of a Python int, n >= 1: the quotient rounded down
PyFloorDiv(a, n) ==
    LET d == BigDivSmall(a.mag, n)
        mag == IF a.neg /\ d.r # 0 THEN BigTrim(BigAdd(d.q, <<1>>)) ELSE d.q
    IN  [neg |-> a.neg /\ mag # <<>>, mag |-> mag]

\* int(s): surrounding whitespace dropped, an optional sign, then decimal
\* digits with single underscores allowed between them; anything else is a
\* ValueError (ok = FALSE). The whitespace int() skips is str.strip's without
\* the separators U+001C..U+001F, and it refuses a text of more than 4300
\* digits (sys.int_info.default_max_str_digits).
ParseInt(s) ==
    LET IntWhitespace == Whitespace \ {28, 29, 30, 31}
        MaxStrDigits == 4300
        first == SetMin({i \in 1..Len(s) : s[i] \notin IntWhitespace} \cup {Len(s) + 1})
        last == SetMax({i \in 1..Len(s) : s[i] \notin IntWhitespace} \cup {0})
        t == SubSeq(s, first, last)
        signed == t # <<>> /\ t[1] \in {43, 45}
        body == IF signed THEN Tail(t) ELSE t
        wellFormed ==
            /\ body # <<>>
            /\ \A i \in 1..Len(body) : IsDigit(body[i]) \/ body[i] = 95
            /\ body[1] # 95 /\ body[Len(body)] # 95
            /\ \A i \in 1..(Len(body) - 1) : ~(body[i] = 95 /\ body[i + 1] = 95)
        digits == SelectSeq(body, IsDigit)
        RECURSIVE Value(_, _)
        Value(i, acc) ==
            IF i > Len(digits) THEN acc
            ELSE Only({ Value(i + 1, next) :
                        next \in { BigTrim(BigAdd(BigMulSmall(acc, 10),
                                        BigFromInt(DigitValue(digits[i])))) } })
    IN  IF ~wellFormed \/ Len(digits) > MaxStrDigits
        THEN [ok |-> FALSE, value |-> PyInt(0)]
        ELSE LET mag == Value(1, <<>>)
             IN  [ok |-> TRUE,
                  value |-> [neg |-> t[1] = 45 /\ mag # <<>>, mag |-> mag]]

DefaultBitsPerSample == 16

DefaultRate == 24000

\* "rate="
RatePrefix == <<114, 97, 116, 101, 61>>

\* "audio/L"
AudioLPrefix == <<97, 117, 100, 105, 111, 47, 76>>

\* One pass of the loop of parse_audio_mime_type over a part of the mime type.
ParseParam(acc, part) ==
    LET param == Strip(part)
    IN  IF StartsWith(Lower(param), RatePrefix)
        THEN LET n == ParseInt(AfterFirst(param, 61))
             IN  IF n.ok THEN [acc EXCEPT !.rate = n.value] ELSE acc
        ELSE IF StartsWith(param, AudioLPrefix)
        THEN LET n == ParseInt(AfterFirst(param, 76))
             IN  IF n.ok THEN [acc EXCEPT !.bits_per_sample = n.value] ELSE acc
        ELSE acc

\* The result is the dict of the two Python ints.
parse_audio_mime_type(mime) ==
    LET parts == SplitOn(mime, 59)
        RECURSIVE Loop(_, _)
        Loop(acc, i) ==
            IF i > Len(parts) THEN acc ELSE Loop(ParseParam(acc, parts[i]), i + 1)
    IN  Loop([bits_per_sample |-> PyInt(DefaultBitsPerSample),
              rate |-> PyInt(DefaultRate)], 1)

\* The n low bytes of X, least significant first
PackBytes(X, n) ==
    LET RECURSIVE Bytes(_, _)
        Bytes(Y, k) ==
            IF k = 0 THEN <<>>
            ELSE Only({ << d.r >> \o Bytes(d.q, k - 1) :
                        d \in { BigDivSmall(Y, 256) } })
    IN  Bytes(X, n)

\* struct.pack field 'H': two bytes, little-endian
PackH(v) == PackBytes(v.mag, 2)

\* struct.pack accepts 0 <= v <= 65535 for 'H'
FitsH(v) == ~v.neg /\ BigCmp(v.mag, BigFromInt(65535)) <= 0

\* struct.pack accepts 0 <= v <= 4294967295 for 'I'
FitsI(v) == ~v.neg /\ BigCmp(v.mag, <<32767, 32767, 3>>) <= 0

\* struct.pack field 'I': four bytes, little-endian
PackI(v) == PackBytes(v.mag, 4)

\* b"RIFF", b"WAVE", b"fmt ", b"data"
RIFF == <<82, 73, 70, 70>>

WAVE == <<87, 65, 86, 69>>

FMT == <<102, 109, 116, 32>>

DATA == <<100, 97, 116, 97>>

\* convert_to_wav(data, mime): struct.pack raises struct.error when a field
\* does not fit its format.
convert_to_wav(data, mime) ==
    LET params == parse_audio_mime_type(mime)
        bits_per_sample == params.bits_per_sample
        sample_rate == params.rate
        num_channels == PyInt(1)
        data_size == PyInt(Len(data))
        bytes_per_sample == PyFloorDiv(bits_per_sample, 8)
        block_align == PyMul(num_channels, bytes_per_sample)
        byte_rate == PyMul(sample_rate, block_align)
        chunk_size == PyInt(36 + Len(data))
        fieldsFit ==
            /\ FitsI(chunk_size)
            /\ FitsI(PyInt(16))
            /\ FitsH(PyInt(1))
            /\ FitsH(num_channels)
            /\ FitsI(sample_rate)
            /\ FitsI(byte_rate)
            /\ FitsH(block_align)
            /\ FitsH(bits_per_sample)
            /\ FitsI(data_size)
    IN  IF ~fieldsFit THEN [raised |-> TRUE, bytes |-> <<>>]
        ELSE [raised |-> FALSE,
              bytes |-> RIFF \o PackI(chunk_size) \o WAVE \o FMT
                        \o PackI(PyInt(16)) \o PackH(PyInt(1))
                        \o PackH(num_channels)
                        \o PackI(sample_rate)
                        \o PackI(byte_rate)
                        \o PackH(block_align) \o PackH(bits_per_sample)
                        \o DATA \o PackI(data_size) \o data]

MaxParams == 2

MaxData == 2

\* Parts of the mime types:
\*   "audio/L16"  "audio/L24"  "audio/l8"  "audio/L"  "audio/L70000"
\*   "audio/L-8"  "rate=16000"  " RATE= 1_000 "  "rate=x"  "rate=-1"
\*   "rate=900000000"  "codec=pcm"  "audio/L64"  "rate=4294967296"
\*   "audio/L0"  "rate=\x1c8000"
MimeParams ==
    { <<97, 117, 100, 105, 111, 47, 76, 49, 54>>,
      <<97, 117, 100, 105, 111, 47, 76, 50, 52>>,
      <<97, 117, 100, 105, 111, 47, 108, 56>>,
      <<97, 117, 100, 105, 111, 47, 76>>,
      <<97, 117, 100, 105, 111, 47, 76, 55, 48, 48, 48, 48>>,
      <<97, 117, 100, 105, 111, 47, 76, 45, 56>>,
      <<114, 97, 116, 101, 61, 49, 54, 48, 48, 48>>,
      <<32, 82, 65, 84, 69, 61, 32, 49, 95, 48, 48, 48, 32>>,
      <<114, 97, 116, 101, 61, 120>>,
      <<114, 97, 116, 101, 61, 45, 49>>,
      <<114, 97, 116, 101, 61, 57, 48, 48, 48, 48, 48, 48, 48, 48>>,
      <<99, 111, 100, 101, 99, 61, 112, 99, 109>>,
      <<97, 117, 100, 105, 111, 47, 76, 54, 52>>,
      <<114, 97, 116, 101, 61, 52, 50, 57, 52, 57, 54, 55, 50, 57, 54>>,
      <<97, 117, 100, 105, 111, 47, 76, 48>>,
      <<114, 97, 116, 101, 61, 28, 56, 48, 48, 48>> }

\* The parts joined by ';'.
MimeTypes == { Join(ps, <<59>>) : ps \in SeqsUpTo(MimeParams, MaxParams) }

PcmBytes == {0, 1, 255}

InitWav ==
    /\ audio_data \in SeqsUpTo(PcmBytes, MaxData)
    /\ mime_type \in MimeTypes
    /\ parameters = [bits_per_sample |-> PyInt(DefaultBitsPerSample),
                     rate |-> PyInt(DefaultRate)]
    /\ wav = [raised |-> FALSE, bytes |-> <<>>]
    /\ text = <<>>
    /\ pc = "start"
    /\ IdleSummary /\ IdleMain /\ IdleTts

\* parse_audio_mime_type(mime_type), called on its own
ParseAudioMimeType ==
    /\ pc = "start"
    /\ parameters' = parse_audio_mime_type(mime_type)
    /\ pc' = "parsed"
    /\ UNCHANGED <<audio_data, mime_type, wav>>
    /\ UNCHANGED <<summaryVars, mainVars, ttsVars>>

\* convert_to_wav(audio_data, mime_type)
ConvertToWav ==
    /\ pc \in {"start", "parsed"}
    /\ parameters' = parse_audio_mime_type(mime_type)
    /\ wav' = convert_to_wav(audio_data, mime_type)
    /\ pc' = "converted"
    /\ UNCHANGED <<audio_data, mime_type>>
    /\ UNCHANGED <<summaryVars, mainVars, ttsVars>>

NextWav == ParseAudioMimeType \/ ConvertToWav

SpecWav == InitWav /\ [][NextWav]_vars

----------------------------------------------------------------------------
(* split_text_for_tts, one action per pass of its loop *)

\* re.sub(r"\s+", " ", s): every whitespace run becomes one space.
CollapseSpaces(s) ==
    LET RECURSIVE Sub(_)
        Sub(i) ==
            IF i > Len(s) THEN <<>>
            ELSE IF IsSpace(s[i]) THEN <<32>> \o Sub(RunEnd(s, i, IsSpace) + 1)
            ELSE << s[i] >> \o Sub(i + 1)
    IN  Sub(1)

\* clean_text
CleanText(s) == Strip(CollapseSpaces(s))

\* [sentence[idx : idx + n] for idx in range(0, len(sentence), n)]: range
\* raises ValueError for the step 0 and is empty for a negative step.
Pieces(sentence, n) ==
    LET RECURSIVE From(_)
        From(idx) ==
            IF idx >= Len(sentence) THEN <<>>
            ELSE << SubSeq(sentence, idx + 1, Min2(idx + n, Len(sentence))) >>
                 \o From(idx + n)
    IN  [raised |-> n = 0,
         pieces |-> IF n <= 0 THEN <<>> ELSE From(0)]

\* projected
Projected_no_space(cur, cur_len, sentence) == cur_len + Len(sentence)

Projected(cur, cur_len, sentence) ==
    cur_len + Len(sentence) + (IF cur # <<>> THEN 1 ELSE 0)

\* One pass of the loop: the chunks, current and current_len it leaves, and
\* whether range raised ValueError in it (the pending sentences are flushed
\* before range is called).
LoopBody(st, raw, n) ==
    LET sentence == Strip(raw)
    IN  IF sentence = <<>>
        THEN [chunks |-> st.chunks, current |-> st.current,
              current_len |-> st.current_len, raised |-> FALSE]
        ELSE IF Len(sentence) > n
        THEN [chunks |-> (IF st.current # <<>>
                          THEN Append(st.chunks, Strip(Join(st.current, <<32>>)))
                          ELSE st.chunks) \o Pieces(sentence, n).pieces,
              current |-> <<>>,
              current_len |-> 0,
              raised |-> Pieces(sentence, n).raised]
        ELSE IF Projected(st.current, st.current_len, sentence) > n
        THEN [chunks |-> Append(st.chunks, Strip(Join(st.current, <<32>>))),
              current |-> << sentence >>,
              current_len |-> Len(sentence),
              raised |-> FALSE]
        ELSE [chunks |-> st.chunks,
              current |-> Append(st.current, sentence),
              current_len |-> Projected(st.current, st.current_len, sentence),
              raised |-> FALSE]

\* After the loop: the pending sentences are flushed and the empty chunks
\* are left out of the returned list.
AfterLoop(st) ==
    LET all == IF st.current # <<>>
               THEN Append(st.chunks, Strip(Join(st.current, <<32>>)))
               ELSE st.chunks
    IN  SelectSeq(all, LAMBDA c : c # <<>>)

\* split_text_for_tts(t, n), the loop run to its end: the returned list, or
\* raised when a pass of the loop raised ValueError.
split_text_for_tts(t, n) ==
    LET clean_text == CleanText(t)
        sents == ReSplitFrom(clean_text, 1, 1)
        RECURSIVE Loop(_, _)
        Loop(st, i) ==
            IF i > Len(sents) \/ st.raised THEN st
            ELSE Only({ Loop(next, i + 1) : next \in { LoopBody(st, sents[i], n) } })
        end == Loop([chunks |-> <<>>, current |-> <<>>, current_len |-> 0,
                     raised |-> FALSE], 1)
    IN  IF Len(clean_text) <= n THEN [raised |-> FALSE, chunks |-> << clean_text >>]
        ELSE IF end.raised THEN [raised |-> TRUE, chunks |-> <<>>]
        ELSE [raised |-> FALSE, chunks |-> AfterLoop(end)]

MaxTtsChars == 8

MaxMaxChars == 3

\* The least max_chars: a negative step and the step 0 are among the inputs.
MinMaxChars == 0 - 1

\* The texts, of the characters 'a', '.' and newline
TtsTexts == SeqsUpTo({97, 46, 10}, MaxTtsChars)

InitTts ==
    /\ text \in TtsTexts
    /\ max_chars \in MinMaxChars..MaxMaxChars
    /\ tts_sentences = <<>>
    /\ tts_i = 1
    /\ current = <<>>
    /\ current_len = 0
    /\ tts_chunks = <<>>
    /\ pc = "start"
    /\ IdleSummary /\ IdleMain /\ IdleWav

\* Lines 38-45: the early return, or the split and the empty accumulators.
TtsEnter ==
    /\ pc = "start"
    /\ IF Len(CleanText(text)) <= max_chars
       THEN /\ tts_chunks' = << CleanText(text) >>
            /\ tts_sentences' = tts_sentences
            /\ pc' = "returned"
       ELSE /\ tts_sentences' = ReSplitFrom(CleanText(text), 1, 1)
            /\ tts_chunks' = <<>>
            /\ pc' = "loop"
    /\ tts_i' = 1
    /\ current' = <<>>
    /\ current_len' = 0
    /\ UNCHANGED max_chars
    /\ UNCHANGED <<summaryVars, mainVars, wavVars>>

\* Lines 47-67: one pass of the loop; the ValueError of range ends the call.
TtsStep ==
    /\ pc = "loop"
    /\ tts_i <= Len(tts_sentences)
    /\ LET st == LoopBody([chunks |-> tts_chunks, current |-> current,
                           current_len |-> current_len],
                          tts_sentences[tts_i], max_chars)
       IN  /\ tts_chunks' = st.chunks
           /\ current' = st.current
           /\ current_len' = st.current_len
           /\ pc' = IF st.raised THEN "raised" ELSE "loop"
    /\ tts_i' = tts_i + 1
    /\ UNCHANGED <<max_chars, tts_sentences>>
    /\ UNCHANGED <<summaryVars, mainVars, wavVars>>

\* Lines 69-72: the last flush and the returned list.
TtsReturn ==
    /\ pc = "loop"
    /\ tts_i > Len(tts_sentences)
    /\ tts_chunks' = AfterLoop([chunks |-> tts_chunks, current |-> current,
                               current_len |-> current_len])
    /\ pc' = "returned"
    /\ UNCHANGED <<max_chars, tts_sentences, tts_i, current, current_len>>
    /\ UNCHANGED <<summaryVars, mainVars, wavVars>>

NextTts == TtsEnter \/ TtsStep \/ TtsReturn

SpecTts == InitTts /\ [][NextTts]_vars

----------------------------------------------------------------------------
(* Claims about split_sentences, checked under SpecSplit *)

\* The characters of s at the indices in I, in order.
AtIndices(s, I) ==
    LET idxs == SelectSeq([i \in 1..Len(s) |-> i], LAMBDA i : i \in I)
    IN  [k \in 1..Len(idxs) |-> s[idxs[k]]]

\* Indices of the trimmed text where a whitespace run follows a terminator.
SplitPoints(s) == {i \in 2..Len(s) : IsSpace(s[i]) /\ s[i - 1] \in Terminators}

\* Indices of the whitespace runs that start at a split point.
SplitGaps(s) ==
    {i \in 1..Len(s) : \E p \in SplitPoints(s) :
        p <= i /\ \A k \in p..i : IsSpace(s[k])}

HasInnerTerminator(c) == \E k \in 1..(Len(c) - 1) : c[k] \in Terminators

\* C9: split_sentences cuts the trimmed text exactly at the whitespace runs
\* that immediately follow a terminator: one more sentence than there are
\* such runs, every sentence non-empty and trimmed, every sentence but the
\* last ending in its terminator, no sentence holding a terminator followed
\* by whitespace, and the sentences, concatenated in order, are the trimmed
\* text without those whitespace runs.
C9_SplitAtTerminatorWhitespace ==
    pc = "split" =>
        LET s == Strip(text)
            n == Len(sentences)
        IN  /\ n = (IF s = <<>> THEN 0 ELSE Cardinality(SplitPoints(s)) + 1)
            /\ \A i \in 1..n :
                  /\ sentences[i] # <<>>
                  /\ ~IsSpace(sentences[i][1])
                  /\ ~IsSpace(sentences[i][Len(sentences[i])])
                  /\ SplitPoints(sentences[i]) = {}
                  /\ i < n => sentences[i][Len(sentences[i])] \in Terminators
            /\ Concat(sentences) = AtIndices(s, (1..Len(s)) \ SplitGaps(s))

\* A text split in two where the first sentence also holds a terminator that
\* is not followed by whitespace.
C9_Witness ==
    /\ pc = "split"
    /\ Len(sentences) = 2
    /\ HasInnerTerminator(sentences[1])
    /\ Len(Strip(text)) < Len(text)

----------------------------------------------------------------------------
(* Claims about score_sentences and summarize_text, checked under SpecSum *)

Range(s) == {s[i] : i \in 1..Len(s)}

RECURSIVE IsSubseq(_, _)
IsSubseq(a, b) ==
    IF a = <<>> THEN TRUE
    ELSE IF b = <<>> THEN FALSE
    ELSE IF Head(a) = Head(b) THEN IsSubseq(Tail(a), Tail(b))
    ELSE IsSubseq(a, Tail(b))

Summarized == pc = "summarized"

\* keep_count of the completed call
StateKeepCount == KeepCount(Len(sentences), ratio, min_sentences)

\* The keep_count of the claims, max(min_sentences, floor(n * ratio)), with
\* the exact product of n and the ratio <<a, b>>.
ClaimedKeepCount ==
    Max2(min_sentences, (Len(sentences) * ratio[1]) \div ratio[2])

\* C1: the number of sentences summarize_text emits is exactly
\* min(keep_count, n), also when the section repeats a sentence text.
C1_ExactKeptCount ==
    Summarized => Len(kept) = Min2(ClaimedKeepCount, Len(sentences))

\* C2: the summary is made of input sentences, verbatim and in document
\* order (a subsequence of the sentence list, joined by single spaces), and
\* holds at most keep_count distinct sentence texts.
C2_OrderedSubsequence ==
    Summarized /\ sentences # <<>> =>
        /\ IsSubseq(kept, sentences)
        /\ summary = Join(kept, <<32>>)
        /\ Cardinality(Range(kept)) <= ClaimedKeepCount

\* A compressed summary that keeps a repeated text and drops another sentence.
C2_Witness ==
    /\ Summarized
    /\ Len(sentences) > min_sentences
    /\ 1 < Len(kept) /\ Len(kept) < Len(sentences)
    /\ Cardinality(Range(kept)) < Len(kept)
    /\ kept[1] # sentences[1]

\* C3: a text of at most min_sentences sentences comes back whole, its
\* sentences in order joined by single spaces, whatever the ratio; nothing
\* is scored.
C3_ShortTextUnchanged ==
    Summarized /\ Len(sentences) <= min_sentences =>
        /\ kept = sentences
        /\ summary = Join(sentences, <<32>>)
        /\ scored = <<>>
        /\ \A r \in Ratios : summarize_text(text, r, min_sentences) = summary

\* A short text of two sentences whose separating whitespace is not one space.
C3_Witness ==
    /\ Summarized
    /\ Len(sentences) = 2
    /\ min_sentences = 2
    /\ ratio = <<1, 4>>
    /\ summary # Strip(text)

\* Number of occurrences of token w in the token lists tl.
Occurrences(tl, w) ==
    Cardinality({ik \in UNION {{<<i, k>> : k \in 1..Len(tl[i])} : i \in 1..Len(tl)} :
                    tl[ik[1]][ik[2]] = w})

RECURSIVE SumSeq(_)
SumSeq(ns) == IF ns = <<>> THEN 0 ELSE Head(ns) + SumSeq(Tail(ns))

\* The float x is p / q up to the rounding of a few float operations:
\* |x - p/q| <= (p/q) * 2^-48, for 0 < x < 2 and integers p, q > 0.
FloatNear(x, p, q) ==
    LET scaled == BigMulSmall(x.m, q)
        exact == BigShiftLeft(BigFromInt(p), 0 - x.e)
        slack == BigShiftLeft(BigFromInt(p), 0 - x.e - 48)
    IN  /\ x.e <= 0 - 48
        /\ BigCmp(scaled, BigAdd(exact, slack)) <= 0
        /\ BigCmp(exact, BigAdd(scaled, slack)) <= 0

\* C7: score_sentences pairs every input sentence, in order, with a score;
\* no score comes from a failed computation; a sentence without tokens
\* scores 0; any other scores the mean over its tokens of
\* count(token) / max_count (as a float, so up to rounding), which lies in
\* (0, 1].
C7_ScoresAreMeanWeights ==
    pc = "scored" =>
        LET tl == MapSeq(sentences, tokenize)
            count == [w \in UNION {Range(tl[i]) : i \in 1..Len(tl)} |->
                         Occurrences(tl, w)]
            max_count == SetMax({0} \cup {count[w] : w \in DOMAIN count})
        IN  /\ Len(scored) = Len(sentences)
            /\ \A i \in 1..Len(scored) :
                  LET sc == scored[i][2]
                  IN  /\ scored[i][1] = sentences[i]
                      /\ sc # Raises
                      /\ FloatCmp(sc, FloatZero) >= 0
                      /\ FloatCmp(sc, FloatOne) <= 0
                      /\ tl[i] = <<>> => sc = FloatZero
                      /\ tl[i] # <<>> =>
                            /\ sc # FloatZero
                            /\ FloatNear(sc,
                                  SumSeq([k \in 1..Len(tl[i]) |-> count[tl[i][k]]]),
                                  max_count * Len(tl[i]))

\* A call that scores one sentence 0, one strictly between 0 and 1 and one 1.
C7_Witness ==
    /\ pc = "scored"
    /\ \E i, j, k \in 1..Len(scored) :
          /\ tokenize(sentences[i]) = <<>> /\ scored[i][2] = FloatZero
          /\ FloatCmp(scored[j][2], FloatZero) = 1
          /\ FloatCmp(scored[j][2], FloatOne) = -1
          /\ scored[k][2] = FloatOne

\* The sentence at index j is the first one with its text.
FirstOccurrence(j) == \A k \in 1..(j - 1) : sentences[k] # sentences[j]

\* C8: ties are broken by original order.  Of two sentences with equal
\* scores, the later one is among the keep_count entries taken from the
\* sorted list only if the earlier one is; hence a text is in the summary
\* only if every equal-score text that occurs earlier in the section is.
C8_StableTieBreak ==
    Summarized /\ Len(sentences) > min_sentences =>
        \A i, j \in 1..Len(sentences) :
            i < j /\ ScoreEqual(scored[i][2], scored[j][2]) =>
                /\ j \in TopIndices(scored, StateKeepCount)
                      => i \in TopIndices(scored, StateKeepCount)
                /\ FirstOccurrence(j) /\ sentences[j] \in Range(kept)
                      => sentences[i] \in Range(kept)

\* Two different sentences tie; only the earlier one fits and is kept.
C8_Witness ==
    /\ Summarized
    /\ Len(sentences) > min_sentences
    /\ \E i, j \in 1..Len(sentences) :
          /\ i < j
          /\ ScoreEqual(scored[i][2], scored[j][2])
          /\ sentences[i] \in Range(kept)
          /\ sentences[j] \notin Range(kept)

\* C10: at ratio 1.0 a text of more than min_sentences sentences keeps every
\* sentence, and summarising that output again at ratio 1.0 splits into the
\* same sentences and returns the same string.
C10_IdempotentAtFullRatio ==
    pc = "resummarized" /\ ratio = <<1, 1>> /\ Len(sentences) > min_sentences =>
        /\ kept = sentences
        /\ summary = Join(sentences, <<32>>)
        /\ split_sentences(summary) = sentences
        /\ resummary = summary

\* A full-ratio run whose first output differs from the trimmed input.
C10_Witness ==
    /\ pc = "resummarized"
    /\ ratio = <<1, 1>>
    /\ Len(sentences) > min_sentences
    /\ Len(sentences) >= 3
    /\ summary # Strip(text)
    /\ resummary = summary

----------------------------------------------------------------------------
(* Claims about split_sections, checked under SpecSec *)

Sectioned == pc \in {"sections", "done"}

\* a occurs in b as a contiguous piece.
IsSubstring(a, b) ==
    \E i \in 0..(Len(b) - Len(a)) : SubSeq(b, i + 1, i + Len(a)) = a

\* First indices of the lines of s.
LineStarts(s) == {p \in 1..Len(s) : LineStart(s, p)}

\* The line of s that starts at p, without its newline.
LineAt(s, p) == SubSeq(s, p, RunEnd(s, p, NotNewline))

\* The line starting at p lies outside every matched heading.
NonHeadingLine(s, p) ==
    LET ms == FindHeadings(s, 1)
    IN  \A k \in 1..Len(ms) :
            ms[k].end < p \/ RunEnd(s, p, NotNewline) < ms[k].start

\* C4: every line of the document that is not part of a chapter heading,
\* the lines before the first heading included, is contained (trimmed) in
\* the content of some returned section.
C4_NonHeadingTextKept ==
    Sectioned =>
        \A p \in LineStarts(text) :
            NonHeadingLine(text, p) =>
                \E k \in 1..Len(sections) :
                    IsSubstring(Strip(LineAt(text, p)), sections[k].content)

\* The (title, body) pairs of the matched headings, in document order.
HeadingSections(s) ==
    LET ms == FindHeadings(s, 1)
    IN  [idx \in 1..Len(ms) |-> HeadingSection(s, ms, idx)]

\* C5: split_sections returns at least one section; a section that carries a
\* matched heading has a non-empty body; the headings with a non-empty body
\* are returned, all of them and in document order; and when there is none
\* (no heading, or only empty bodies) the result is the one placeholder
\* section holding the trimmed text.
C5_NoTitleOnlySection ==
    Sectioned =>
        LET hs == HeadingSections(text)
            full == {idx \in 1..Len(hs) : hs[idx].content # <<>>}
        IN  /\ Len(sections) >= 1
            /\ \A k \in 1..Len(sections) :
                  sections[k].title # WholeBookTitle => sections[k].content # <<>>
            /\ full = {} =>
                  sections = << [title |-> WholeBookTitle, content |-> Strip(text)] >>
            /\ full # {} =>
                  /\ Len(sections) = Cardinality(full)
                  /\ IsSubseq(sections, hs)
                  /\ \A k \in 1..Len(sections) : sections[k].title # WholeBookTitle

\* Three headings are matched; the first and the last have an empty body
\* and are left out, the middle one is returned.
C5_Witness ==
    /\ Sectioned
    /\ Len(HeadingSections(text)) = 3
    /\ HeadingSections(text)[1].content = <<>>
    /\ HeadingSections(text)[3].content = <<>>
    /\ sections = << HeadingSections(text)[2] >>

----------------------------------------------------------------------------
(* Claim about summarize_sections, checked under SpecScope: two calls on two
   section lists *)

\* C6: the block summarize_sections produces for a section depends on that
\* section and the ratio alone: whenever the two lists hold the same section,
\* the two calls produce the same block for it, whatever the other sections
\* of either list are.
C6_PerSectionScope ==
    pc = "both" =>
        \A i \in 1..Len(sections), j \in 1..Len(other_sections) :
            sections[i] = other_sections[j] => output_lines[i] = other_lines[j]

\* Both lists hold the same three-sentence section at the same index, it is
\* compressed, and only one list also holds a section that repeats one of
\* its words.
C6_Witness ==
    /\ pc = "both"
    /\ \E i \in 1..Len(sections) :
          /\ i <= Len(other_sections)
          /\ sections[i] = other_sections[i]
          /\ Len(split_sentences(sections[i].content)) > DefaultMinSentences
          /\ Len(output_lines[i]) < Len(sections[i].title) + Len(sections[i].content) + 2
          /\ \E k \in 1..Len(other_sections) :
                /\ AllWords(<< other_sections[k].content >>) # <<>>
                /\ Range(AllWords(<< other_sections[k].content >>))
                      \subseteq Range(AllWords(<< sections[i].content >>))
                /\ \A m \in 1..Len(sections) : sections[m] # other_sections[k]

----------------------------------------------------------------------------
(* Claims about main, checked under SpecMain *)

RatioError == "--ratio must be between 0.1 and 0.9"

\* The range the claim names, 0.1 to 0.9 inclusive, written out on its own.
InClaimedRange(r) == r[2] <= 10 * r[1] /\ 10 * r[1] <= 9 * r[2]

\* C11: once main is past its ratio check, a ratio outside 0.1..0.9 has ended
\* the run with the ratio error before any source was read and before any
\* artifact was written, and a ratio inside the range never gives that error;
\* summarize_text called directly returns for every ratio, in or out of the
\* range, and keeps at least min_sentences sentences (all of them when the
\* text has fewer).
C11_RatioValidatedAtBoundary ==
    /\ main_pc = "check_ratio" => events = <<>> /\ error = "none"
    /\ main_pc # "check_ratio" =>
          IF InClaimedRange(args.ratio)
          THEN error # RatioError
          ELSE main_pc = "raised" /\ error = RatioError /\ events = <<>>
    /\ pc = "summarized" =>
          /\ Len(kept) >= Min2(min_sentences, Len(sentences))
          /\ \A k \in 1..Len(kept) : kept[k] \in Range(sentences)

C11_Witness ==
    /\ ~InClaimedRange(args.ratio)
    /\ main_pc = "raised"
    /\ error = RatioError
    /\ pc = "summarized"
    /\ Len(sentences) > min_sentences
    /\ Len(kept) >= min_sentences

----------------------------------------------------------------------------
(* Claims about convert_to_wav, checked under SpecWav *)

\* The Python int v, not below zero, as n little-endian bytes
LittleEndian(v, n) ==
    LET RECURSIVE Digits(_, _)
        Digits(X, k) ==
            IF k = 0 THEN <<>>
            ELSE << (IF X = <<>> THEN 0 ELSE X[1] % 256) >>
                 \o Digits(BigShiftRight(X, 8).q, k - 1)
    IN  Digits(v.mag, n)

\* Some part of the mime type, trimmed, starts with the prefix.
HasParam(mime, prefix, fold) ==
    \E i \in 1..Len(SplitOn(mime, 59)) :
        LET param == Strip(SplitOn(mime, 59)[i])
        IN  StartsWith(IF fold THEN Lower(param) ELSE param, prefix)

\* The layout the claim gives the result: 44 header bytes, then the data.
WavHeaderAsClaimed ==
    /\ Len(wav.bytes) = 44 + Len(audio_data)
    /\ SubSeq(wav.bytes, 45, Len(wav.bytes)) = audio_data
    /\ SubSeq(wav.bytes, 1, 4) = <<82, 73, 70, 70>>
    /\ SubSeq(wav.bytes, 9, 12) = <<87, 65, 86, 69>>
    /\ SubSeq(wav.bytes, 5, 8) = LittleEndian(PyInt(36 + Len(audio_data)), 4)
    /\ SubSeq(wav.bytes, 41, 44) = LittleEndian(PyInt(Len(audio_data)), 4)
    /\ SubSeq(wav.bytes, 25, 28) = LittleEndian(parameters.rate, 4)
    /\ SubSeq(wav.bytes, 35, 36) = LittleEndian(parameters.bits_per_sample, 2)

\* C12: for every byte string and every mime type, convert_to_wav returns a
\* 44-byte header followed by the data unchanged; the header starts with
\* RIFF, has WAVE at bytes 8..12, chunk size 36 + len(data), data size
\* len(data), and the sample rate and bits per sample that
\* parse_audio_mime_type gives for the mime type, which are 24000 and 16 when
\* the mime type has no rate= or audio/L part.
C12_WavHeader ==
    /\ pc = "converted" => ~wav.raised /\ WavHeaderAsClaimed
    /\ pc \in {"parsed", "converted"} =>
          /\ ~HasParam(mime_type, <<114, 97, 116, 101, 61>>, TRUE)
                => parameters.rate = PyInt(24000)
          /\ ~HasParam(mime_type, <<97, 117, 100, 105, 111, 47, 76>>, FALSE)
                => parameters.bits_per_sample = PyInt(16)

----------------------------------------------------------------------------
(* Claims about split_text_for_tts, checked under SpecTts *)

\* The length of the pending sentences joined by single spaces.
PendingLength == Len(Join(current, <<32>>))

\* Every chunk so far is at most max_chars long, and inside the loop
\* current_len is the length of the joined pending sentences.
ChunksBounded ==
    /\ pc \in {"loop", "returned"} =>
          \A k \in 1..Len(tts_chunks) : Len(tts_chunks[k]) <= max_chars
    /\ pc = "loop" => current_len = PendingLength

\* What one pass of the loop may do to the chunks and the pending sentences.
LoopPass ==
    (pc = "loop" /\ pc' = "loop" /\ tts_i' = tts_i + 1) =>
        LET sentence == Strip(tts_sentences[tts_i])
            added == SubSeq(tts_chunks', Len(tts_chunks) + 1, Len(tts_chunks'))
            flushed == current # <<>> /\ current' # Append(current, sentence)
            pieces == IF flushed THEN Tail(added) ELSE added
        IN  /\ SubSeq(tts_chunks', 1, Len(tts_chunks)) = tts_chunks
            /\ flushed =>
                  /\ PendingLength + 1 + Len(sentence) > max_chars
                  /\ added # <<>>
                  /\ added[1] = Join(current, <<32>>)
            /\ ~flushed /\ current # <<>> =>
                  /\ PendingLength + 1 + Len(sentence) <= max_chars
                  /\ added = <<>>
            /\ IF Len(sentence) > max_chars
               THEN /\ max_chars >= 1 => Concat(pieces) = sentence
                    /\ \A k \in 1..Len(pieces) :
                          1 <= Len(pieces[k]) /\ Len(pieces[k]) <= max_chars
                    /\ current' = <<>>
               ELSE /\ pieces = <<>>
                    /\ current' # <<>>
                    /\ current'[Len(current')] = sentence

\* C13: for every text and every max_chars >= 1, every chunk of
\* split_text_for_tts is at most max_chars long; in the loop current_len is the
\* length of the pending sentences joined by single spaces; the pending
\* sentences are flushed in a pass only when they and the next sentence,
\* joined, would exceed max_chars, and then become the next chunk; a sentence
\* longer than max_chars is cut into consecutive pieces of 1..max_chars
\* characters that concatenate to the sentence. With max_chars < 0 no piece
\* is appended and the chunks stay empty; with max_chars = 0 the first pass
\* ends the call with ValueError.
C13_ChunksWithinMaxChars == []ChunksBounded /\ [][LoopPass]_vars

C13_Witness ==
    /\ pc = "returned"
    /\ \E i \in 1..Len(tts_sentences) : Len(Strip(tts_sentences[i])) > max_chars
    /\ \E i \in 1..(Len(tts_sentences) - 1) : \E k \in 1..Len(tts_chunks) :
          tts_chunks[k] = tts_sentences[i] \o <<32>> \o tts_sentences[i + 1]
    /\ \A k \in 1..Len(tts_chunks) : Len(tts_chunks[k]) <= max_chars
    /\ Len(tts_chunks) >= 3

----------------------------------------------------------------------------
(* Claims about the order of main's artifacts, checked under SpecMain *)

\* The artifacts written so far, in the order they were written.
Written == SelectSeq(events, LAMBDA e : e # "read")

\* C14: in every run of main the artifacts are written in the order summary,
\* audio, video; a video is written only after the audio of the same run and
\* with a non-empty image list collected; the error for --video-output
\* without --audio-output is raised with the summary already written, and the
\* error for --video-output without --images-dir with the summary and the
\* requested audio already written.
C14_ArtifactOrder ==
    /\ Written \in { <<>>, <<"summary">>, <<"summary", "audio">>,
                     <<"summary", "audio", "video">> }
    /\ "video" \in Range(events) => images # <<>> /\ args.audio_output # None
    /\ error = "--video-output requires --audio-output" =>
          Written = <<"summary">> /\ args.audio_output = None
    /\ error = "--video-output requires --images-dir with related images" =>
          Written = <<"summary", "audio">>

C14_Witness ==
    /\ main_pc = "returned"
    /\ events = <<"read", "summary", "audio", "video">>
    /\ Len(images) = 2
    /\ output # <<>>

====
